---------------------------- MODULE Spec2Model ----------------------------
(***************************************************************************)
(* Haka HTTP server: the Router (registration, prefix composition and      *)
(* matching, include/haka/router.hpp), the Request/Response model          *)
(* (include/haka/core.hpp) and the Connection life cycle                   *)
(* (include/haka/server.hpp).                                              *)
(*                                                                         *)
(* Strings are TLA+ strings; Len, \o and SubSeq act on them as on          *)
(* std::string (1-based here, 0-based in the source).                      *)
(***************************************************************************)
EXTENDS Integers, Sequences, FiniteSets, TLC

VARIABLES
  router,     \* per Router object: routes_, static_paths_, current_group_prefix_
  frames,     \* call stack of the group() invocations in progress
  nOps,       \* number of registration calls made so far
  regs,       \* per Get, Post and mount call, by its number: what was called
  fs,         \* the file store (external collaborator)
  lastMatch,  \* the last Router::match call and what it returned
  conn,       \* per connection: the Connection object, its socket, its client
  server,     \* the Server: "idle" before run(), "running", "stopped"
  call,       \* a call of a function on its own: its argument and result;
              \* the completion callback the reactor is running
  acceptor    \* the acceptor: the accepts pending, how the last one completed

vars ==
  <<router, frames, nOps, regs, fs, lastMatch, conn, server, call, acceptor>>

-----------------------------------------------------------------------------
(* std::string helpers                                                     *)

\* s[i] of the source, 1-based
CharAt(s, i) == SubSeq(s, i, i)

\* s.substr(pos) with pos 0-based
SubstrFrom(s, pos) == SubSeq(s, pos + 1, Len(s))

\* std::string::starts_with / rfind(prefix, 0) == 0
StartsWith(s, p) == Len(p) <= Len(s) /\ SubSeq(s, 1, Len(p)) = p

\* std::string::find(pat, from): 0-based index of the first occurrence at or
\* after from, or -1 (npos)
RECURSIVE FindFrom(_, _, _)
FindFrom(s, pat, from) ==
  IF from + Len(pat) > Len(s) THEN -1
  ELSE IF SubSeq(s, from + 1, from + Len(pat)) = pat THEN from
  ELSE FindFrom(s, pat, from + 1)

Find(s, pat) == FindFrom(s, pat, 0)

\* std::isspace in the "C" locale
IsSpace(c) == c \in {" ", "\t", "\n", "\r", "\f"}

\* index (0-based) of the first character at or after pos that is (not) white
\* space, Len(s) when there is none
RECURSIVE SkipSpace(_, _)
SkipSpace(s, pos) ==
  IF pos >= Len(s) THEN Len(s)
  ELSE IF IsSpace(CharAt(s, pos + 1)) THEN SkipSpace(s, pos + 1)
  ELSE pos

RECURSIVE SkipWord(_, _)
SkipWord(s, pos) ==
  IF pos >= Len(s) THEN Len(s)
  ELSE IF IsSpace(CharAt(s, pos + 1)) THEN pos
  ELSE SkipWord(s, pos + 1)

\* stream >> word: skips white space, then reads up to the next white space;
\* an extraction that finds nothing leaves word empty. Returns the word and
\* the stream position after it.
Extract(s, pos) ==
  LET b == SkipSpace(s, pos)
      e == SkipWord(s, b)
  IN  [word |-> SubSeq(s, b + 1, e), pos |-> e]


\* map[key] = value of std::unordered_map: insert or overwrite
MapPut(m, key, value) ==
  [k \in DOMAIN m \cup {key} |-> IF k = key THEN value ELSE m[k]]

-----------------------------------------------------------------------------
(* The file store: std::filesystem as Router::match and Response::sendFile *)
(* use it.  A store F has directories, regular files with their content,   *)
(* symbolic links to canonical targets, and directories whose entries      *)
(* cannot be looked up (search permission denied).                         *)

\* the process's working directory, which std::filesystem::absolute prepends
Cwd == "/srv"

\* the components of a path between its "/" separators
RECURSIVE SplitFrom(_, _, _)
SplitFrom(s, pos, acc) ==
  IF pos >= Len(s) THEN <<acc>>
  ELSE IF CharAt(s, pos + 1) = "/" THEN <<acc>> \o SplitFrom(s, pos + 1, "")
  ELSE SplitFrom(s, pos + 1, acc \o CharAt(s, pos + 1))

SplitPath(s) == SplitFrom(s, 0, "")

RECURSIVE LastSlash(_, _)
LastSlash(s, i) ==
  IF i = 0 THEN 0 ELSE IF CharAt(s, i) = "/" THEN i ELSE LastSlash(s, i - 1)

\* the parent directory of a canonical path; "/" is its own parent
ParentDir(p) ==
  LET k == LastSlash(p, Len(p)) IN IF k <= 1 THEN "/" ELSE SubSeq(p, 1, k - 1)

\* path resolution as the operating system does it, one component at a
\* time from the canonical directory cur: "ok" with the canonical path,
\* "noent" (ENOENT, ENOTDIR) or "fault" (any other error, here EACCES)
RECURSIVE WalkFrom(_, _, _)
WalkFrom(F, comps, cur) ==
  IF comps = <<>> THEN [err |-> "ok", path |-> cur]
  ELSE IF cur \notin F.dirs THEN [err |-> "noent", path |-> ""]
  ELSE IF cur \in F.denied THEN [err |-> "fault", path |-> ""]
  ELSE
    LET c     == Head(comps)
        child == IF cur = "/" THEN "/" \o c ELSE cur \o "/" \o c
    IN  IF c \in {"", "."} THEN WalkFrom(F, Tail(comps), cur)
        ELSE IF c = ".." THEN WalkFrom(F, Tail(comps), ParentDir(cur))
        ELSE IF child \in F.dirs \cup DOMAIN F.files
          THEN WalkFrom(F, Tail(comps), child)
        ELSE IF child \in DOMAIN F.links
                /\ F.links[child] \in F.dirs \cup DOMAIN F.files
          THEN WalkFrom(F, Tail(comps), F.links[child])
        ELSE [err |-> "noent", path |-> ""]

\* resolution of an absolute path
Walk(F, p) == WalkFrom(F, SplitPath(p), "/")

\* std::filesystem::path::operator/ : an absolute right-hand side replaces
\* the left-hand side
PathJoin(a, b) ==
  IF StartsWith(b, "/") THEN b
  ELSE IF a = "" \/ CharAt(a, Len(a)) = "/" THEN a \o b
  ELSE a \o "/" \o b

\* std::filesystem::absolute
Absolute(p) == IF StartsWith(p, "/") THEN p ELSE PathJoin(Cwd, p)

-----------------------------------------------------------------------------
(* Request (core.hpp)                                                      *)

\* Request::path_starts_with
path_starts_with(path, prefix) == StartsWith(path, prefix)

\* Request::path_after_prefix
path_after_prefix(path, prefix) ==
  IF path_starts_with(path, prefix)
    THEN IF Len(path) = Len(prefix) THEN "/" ELSE SubstrFrom(path, Len(prefix))
    ELSE path

-----------------------------------------------------------------------------
(* Router (router.hpp)                                                     *)

\* normalize_path_segment removing every trailing slash
RECURSIVE normalize_path_segment_StripAll(_)
normalize_path_segment_StripAll(path) ==
  LET lead == IF path = "" \/ CharAt(path, 1) # "/" THEN "/" \o path ELSE path
  IN  IF Len(lead) > 1 /\ CharAt(lead, Len(lead)) = "/"
        THEN normalize_path_segment_StripAll(SubSeq(lead, 1, Len(lead) - 1))
        ELSE lead

\* Router::normalize_path_segment
normalize_path_segment(path) ==
  LET lead == IF path = "" \/ CharAt(path, 1) # "/" THEN "/" \o path ELSE path
  IN  IF Len(lead) > 1 /\ CharAt(lead, Len(lead)) = "/"
        THEN SubSeq(lead, 1, Len(lead) - 1)
        ELSE lead

\* the key a route is stored and looked up under
RouteKey(method, path) == method \o " " \o path

\* prefix_matches without the special case of the root mount
prefix_matches_NoRootCase(url_prefix, path) ==
  \/ (url_prefix = "/" /\ path = "/")
  \/ (url_prefix # "/" /\ path_starts_with(path, url_prefix \o "/"))

\* Router::match, the test whether a static mount's prefix matches the path
prefix_matches(url_prefix, path) ==
  \/ (url_prefix = "/" /\ path = "/")
  \/ (url_prefix # "/" /\ path_starts_with(path, url_prefix \o "/"))
  \/ (url_prefix = "/" /\ StartsWith(path, "/"))

\* Router::match, the path below the mount, "/index.html" for the mount itself
file_sub_path(url_prefix, path) ==
  LET sub == IF url_prefix = "/" THEN path
             ELSE path_after_prefix(path, url_prefix)
  IN  IF sub = "" \/ sub = "/" THEN "/index.html" ELSE sub

\* Router::match, the candidate file of a mount for a request path
full_fs_path(url_prefix, fs_root, path) ==
  LET sub == file_sub_path(url_prefix, path)
      rel == IF Len(sub) > 0 /\ CharAt(sub, 1) = "/" THEN SubstrFrom(sub, 1)
             ELSE sub
  IN  PathJoin(Absolute(fs_root), rel)

\* IsTraversal on the paths as joined, without canonical()
IsTraversal_Lexical(F, fs_root, full) ==
  ~StartsWith(full, Absolute(fs_root))

\* Router::match, the traversal check: both canonical paths resolve and the
\* candidate's does not start with the root's
IsTraversal(F, fs_root, full) ==
  LET cr == Walk(F, Absolute(fs_root))
      cf == Walk(F, full)
  IN  cr.err = "ok" /\ cf.err = "ok" /\ ~StartsWith(cf.path, cr.path)

\* what Router::match returns: kind "file" (the handler that sends file),
\* "bad400" (the "Invalid path." handler), "route" (a registered handler),
\* "notfound" (the 404 handler), or "throw" (a filesystem_error leaves
\* match).  tried lists the static mounts whose candidate was resolved,
\* routeConsulted tells whether the route table was looked up.
MatchResult(kind, file, handler, tried, consulted) ==
  [kind |-> kind, file |-> file, handler |-> handler, tried |-> tried,
   routeConsulted |-> consulted]

\* MatchRoutes that answers a miss with the "Invalid path." handler
MatchRoutes_NoFallback(routes, method, path, tried) ==
  LET lookup_key == RouteKey(method, normalize_path_segment(path))
  IN  IF lookup_key \in DOMAIN routes
        THEN MatchResult("route", "", routes[lookup_key], tried, TRUE)
        ELSE MatchResult("bad400", "", 0, tried, TRUE)

\* MatchRoutes that looks the path up as received
MatchRoutes_Raw(routes, method, path, tried) ==
  LET lookup_key == RouteKey(method, path)
  IN  IF lookup_key \in DOMAIN routes
        THEN MatchResult("route", "", routes[lookup_key], tried, TRUE)
        ELSE MatchResult("notfound", "", 0, tried, TRUE)

\* MatchRoutes that looks the path up under any method
MatchRoutes_AnyMethod(routes, method, path, tried) ==
  LET np   == normalize_path_segment(path)
      hits == {k \in DOMAIN routes :
                 \E m \in {"GET", "POST"} : k = RouteKey(m, np)}
  IN  IF hits # {}
        THEN MatchResult("route", "", routes[CHOOSE k \in hits : TRUE],
                         tried, TRUE)
        ELSE MatchResult("notfound", "", 0, tried, TRUE)

\* Router::match, steps 2 and 3: the route table, then the fallback
MatchRoutes(routes, method, path, tried) ==
  LET lookup_key == RouteKey(method, normalize_path_segment(path))
  IN  IF lookup_key \in DOMAIN routes
        THEN MatchResult("route", "", routes[lookup_key], tried, TRUE)
        ELSE MatchResult("notfound", "", 0, tried, TRUE)

\* Router::match, step 1 from static mount i on
RECURSIVE MatchStatic(_, _, _, _, _, _, _)
MatchStatic(routes, statics, F, method, path, i, tried) ==
  IF i > Len(statics) THEN MatchRoutes(routes, method, path, tried)
  ELSE
    LET url_prefix == statics[i][1]
        fs_root    == statics[i][2]
    IN  IF ~prefix_matches(url_prefix, path)
          THEN MatchStatic(routes, statics, F, method, path, i + 1, tried)
          ELSE
            LET full == full_fs_path(url_prefix, fs_root, path)
                st   == Walk(F, full)
                now  == Append(tried, i)
            IN  IF IsTraversal(F, fs_root, full)
                  THEN MatchResult("bad400", "", 0, now, FALSE)
                ELSE IF st.err = "fault"
                  THEN MatchResult("throw", "", 0, now, FALSE)
                ELSE IF st.err = "ok" /\ st.path \in DOMAIN F.files
                  THEN MatchResult("file", full, 0, now, FALSE)
                ELSE MatchStatic(routes, statics, F, method, path, i + 1, now)

\* Match looking up the route table before the static mounts
Match_RoutesFirst(routes, statics, F, method, path) ==
  IF RouteKey(method, normalize_path_segment(path)) \in DOMAIN routes
    THEN MatchRoutes(routes, method, path, <<>>)
    ELSE MatchStatic(routes, statics, F, method, path, 1, <<>>)

\* Match on a router that keeps the routers mounted into it by reference:
\* the routes a mounted router has now are looked up under the prefix
Match_LiveMount(routes, statics, F, method, path) ==
  LET key    == RouteKey(method, normalize_path_segment(path))
      mounts == {x \in DOMAIN regs : regs[x].method = "MOUNT"}
      to(n, o) == RouteKey(Extract(o, 0).word,
                    normalize_path_segment(
                      normalize_path_segment(regs[n].path) \o
                      normalize_path_segment(
                        Extract(o, Extract(o, 0).pos).word)))
      hits   == UNION {{router[regs[n].other].routes_[o] :
                          o \in {y \in DOMAIN router[regs[n].other].routes_ :
                                   to(n, y) = key}} : n \in mounts}
  IN  IF hits # {}
        THEN MatchResult("route", "", CHOOSE h \in hits : TRUE, <<>>, TRUE)
        ELSE MatchStatic(routes, statics, F, method, path, 1, <<>>)

\* Router::match
Match(routes, statics, F, method, path) ==
  MatchStatic(routes, statics, F, method, path, 1, <<>>)


\* a Router as constructed: no routes, no static mounts, empty group prefix
EmptyRouter ==
  [routes_ |-> <<>>, static_paths_ |-> <<>>, current_group_prefix_ |-> ""]

\* add_route that keeps the handler a key is already bound to
add_route_KeepFirst(R, method, path, handler) ==
  LET full_path == normalize_path_segment(
                     R.current_group_prefix_ \o normalize_path_segment(path))
      key == RouteKey(method, full_path)
  IN  IF key \in DOMAIN R.routes_ THEN R
      ELSE [R EXCEPT !.routes_ = MapPut(@, key, handler)]

\* Router::add_route (Router::Get and Router::Post call it)
add_route(R, method, path, handler) ==
  LET full_path == normalize_path_segment(
                     R.current_group_prefix_ \o normalize_path_segment(path))
  IN  [R EXCEPT !.routes_ = MapPut(@, RouteKey(method, full_path), handler)]

\* Router::serveStatic
serveStatic(R, path_prefix, fs_path) ==
  [R EXCEPT !.static_paths_ =
     Append(@, <<normalize_path_segment(path_prefix), fs_path>>)]

\* group_prefix that replaces the active prefix instead of extending it
group_prefix_Replace(R, prefix) ==
  normalize_path_segment(normalize_path_segment(prefix))

\* Router::group up to the call of config_func: the prefix it activates
group_prefix(R, prefix) ==
  normalize_path_segment(
    R.current_group_prefix_ \o normalize_path_segment(prefix))

\* group_restore that resets the prefix to the root level
group_restore_Root(frame) == ""

\* Router::group after config_func returned: the prefix it restores
group_restore(frame) == frame.current_prefix_backup

\* Router::mount, the key of this router a key of the other router is
\* copied to: the key is split at white space into method and path
mount_key(mount_prefix, key) ==
  LET m == Extract(key, 0)
      p == Extract(key, m.pos)
  IN  RouteKey(m.word,
               normalize_path_segment(
                 mount_prefix \o normalize_path_segment(p.word)))

\* Router::mount, the static mounts appended, in the other router's order
RECURSIVE mount_statics(_, _)
mount_statics(mount_prefix, statics) ==
  IF statics = <<>> THEN <<>>
  ELSE <<<<normalize_path_segment(
             mount_prefix \o normalize_path_segment(Head(statics)[1])),
           Head(statics)[2]>>>>
       \o mount_statics(mount_prefix, Tail(statics))

\* Router::mount, the route tables it can leave: the other router's routes
\* are copied in the iteration order of its unordered_map, so of two keys
\* copied to the same key either may be the one written last
mount_routes(R, mount_prefix, O) ==
  LET src(k) == {o \in DOMAIN O.routes_ : mount_key(mount_prefix, o) = k}
      new    == {mount_key(mount_prefix, o) : o \in DOMAIN O.routes_}
  IN  {[k \in DOMAIN R.routes_ \cup new |->
          IF k \in new THEN O.routes_[pick[k]] ELSE R.routes_[k]] :
       pick \in {f \in [new -> DOMAIN O.routes_] : \A k \in new : f[k] \in src(k)}}

-----------------------------------------------------------------------------
(* Response (core.hpp)                                                     *)

\* Response::Response
NewResponse ==
  [status_code |-> 200,
   headers     |-> [n \in {"Content-Type"} |-> "text/plain"],
   body        |-> ""]

\* Response::Text
Text(res, text_content) ==
  [res EXCEPT !.headers = MapPut(@, "Content-Type", "text/plain"),
              !.body = text_content]

\* Response::HTML
HTML(res, html_content) ==
  [res EXCEPT !.headers = MapPut(@, "Content-Type", "text/html"),
              !.body = html_content]

\* how struct_json::to_json ends: it returns, throws a std::exception or
\* throws something else
CodecOutcomes == {"ok", "std_exception", "other_exception"}

\* Response::JSON; json_text is what the codec appends to the body for the
\* value, codec how the codec ends. res is the Response as JSON leaves it,
\* raised tells that an exception left JSON.
JSON(res, json_text, codec) ==
  LET typed == [res EXCEPT
                  !.headers = MapPut(@, "Content-Type", "application/json")]
  IN  CASE codec = "ok" ->
             [res |-> [typed EXCEPT !.body = @ \o json_text],
              raised |-> FALSE]
        [] codec = "std_exception" ->
             [res |-> [typed EXCEPT
                         !.status_code = 500,
                         !.body = "Internal Server Error",
                         !.headers = MapPut(@, "Content-Type", "text/plain")],
              raised |-> FALSE]
        [] OTHER -> [res |-> typed, raised |-> TRUE]

RECURSIVE LastDot(_, _)
LastDot(s, i) ==
  IF i = 0 \/ CharAt(s, i) = "/" THEN 0
  ELSE IF CharAt(s, i) = "." THEN i
  ELSE LastDot(s, i - 1)

\* std::filesystem::path::extension: from the last "." of the file name,
\* empty when there is none or the name only starts with it
Extension(file_path) ==
  LET k == LastDot(file_path, Len(file_path))
  IN  IF k <= 1 \/ CharAt(file_path, k - 1) = "/" THEN ""
      ELSE SubSeq(file_path, k, Len(file_path))

\* guess_mime_type
guess_mime_type(file_path) ==
  LET ext == Extension(file_path)
  IN  CASE ext \in {".html", ".htm"} -> "text/html"
        [] ext = ".css" -> "text/css"
        [] ext = ".js" -> "application/javascript"
        [] ext = ".json" -> "application/json"
        [] ext = ".png" -> "image/png"
        [] ext \in {".jpg", ".jpeg"} -> "image/jpeg"
        [] ext = ".gif" -> "image/gif"
        [] ext = ".svg" -> "image/svg+xml"
        [] ext = ".pdf" -> "application/pdf"
        [] OTHER -> "application/octet-stream"

\* Response::sendFile; io is what the file store does when the file is
\* opened, sized and read: "ok", "open_failed", "size_failed" (the path
\* opens and tellg gives no size body.resize can make: -1, or the end
\* offset of a directory) or "read_failed". res is the Response as sendFile
\* leaves it, returned the value it returns, raised tells that an
\* exception (std::length_error, std::bad_alloc) left sendFile.
sendFile(res, F, file_path, io) ==
  LET st == Walk(F, file_path)
  IN  IF io = "open_failed" \/ st.err # "ok" \/ st.path \notin DOMAIN F.files
        THEN [res |-> [res EXCEPT
                         !.status_code = 404,
                         !.body = "File not found: " \o file_path,
                         !.headers = MapPut(@, "Content-Type", "text/plain")],
              returned |-> FALSE, raised |-> FALSE]
      ELSE IF io = "size_failed"
        THEN [res |-> res, returned |-> FALSE, raised |-> TRUE]
      ELSE IF io = "read_failed"
        THEN [res |-> [res EXCEPT
                         !.status_code = 500,
                         !.body = "Internal Server Error",
                         !.headers = MapPut(@, "Content-Type", "text/plain")],
              returned |-> FALSE, raised |-> FALSE]
      ELSE [res |-> [res EXCEPT
                       !.body = F.files[st.path],
                       !.headers = MapPut(@, "Content-Type",
                                          guess_mime_type(file_path)),
                       !.status_code = 200],
            returned |-> TRUE, raised |-> FALSE]

\* Response::to_string, the reason phrase of the status line
ReasonPhrase(status_code) ==
  CASE status_code = 100 -> "Continue"
    [] status_code = 101 -> "Switching Protocols"
    [] status_code = 200 -> "OK"
    [] status_code = 201 -> "Created"
    [] status_code = 202 -> "Accepted"
    [] status_code = 204 -> "No Content"
    [] status_code = 301 -> "Moved Permanently"
    [] status_code = 302 -> "Found"
    [] status_code = 304 -> "Not Modified"
    [] status_code = 400 -> "Bad Request"
    [] status_code = 401 -> "Unauthorized"
    [] status_code = 403 -> "Forbidden"
    [] status_code = 404 -> "Not Found"
    [] status_code = 405 -> "Method Not Allowed"
    [] status_code = 500 -> "Internal Server Error"
    [] status_code = 501 -> "Not Implemented"
    [] status_code = 503 -> "Service Unavailable"
    [] OTHER -> "Unknown Status"

\* Response::to_string, the header lines in the order the map iterates
RECURSIVE HeaderLines(_, _)
HeaderLines(headers, order) ==
  IF order = <<>> THEN ""
  ELSE Head(order) \o ": " \o headers[Head(order)] \o "\r\n"
       \o HeaderLines(headers, Tail(order))

\* the orders an unordered_map with these keys can iterate in
IterationOrders(keys) ==
  {o \in [1..Cardinality(keys) -> keys] : \A k \in keys : \E i \in DOMAIN o : o[i] = k}

\* to_string counting the terminating NUL into Content-Length
to_string_LengthOff(res, order) ==
  "HTTP/1.1 " \o ToString(res.status_code) \o " "
  \o ReasonPhrase(res.status_code) \o "\r\n"
  \o HeaderLines(res.headers, order)
  \o "Content-Length: " \o ToString(Len(res.body) + 1) \o "\r\n"
  \o "\r\n"
  \o res.body

\* Response::to_string, with the map iterating in this order
to_string(res, order) ==
  "HTTP/1.1 " \o ToString(res.status_code) \o " "
  \o ReasonPhrase(res.status_code) \o "\r\n"
  \o HeaderLines(res.headers, order)
  \o "Content-Length: " \o ToString(Len(res.body)) \o "\r\n"
  \o "\r\n"
  \o res.body

-----------------------------------------------------------------------------
(* Connection (server.hpp): parsing of the accumulated buffer              *)

\* std::getline(stream, line) at stream position pos: fails at the end of
\* the stream, else reads up to and consumes the next "\n"
Getline(s, pos) ==
  IF pos >= Len(s) THEN [ok |-> FALSE, line |-> "", pos |-> pos]
  ELSE LET k == FindFrom(s, "\n", pos)
       IN  IF k = -1
             THEN [ok |-> TRUE, line |-> SubstrFrom(s, pos), pos |-> Len(s)]
             ELSE [ok |-> TRUE, line |-> SubSeq(s, pos + 1, k), pos |-> k + 1]

\* value.find_first_not_of(" \t"), -1 for npos
RECURSIVE FirstNotBlank(_, _)
FirstNotBlank(s, pos) ==
  IF pos >= Len(s) THEN -1
  ELSE IF CharAt(s, pos + 1) \in {" ", "\t"} THEN FirstNotBlank(s, pos + 1)
  ELSE pos

\* Connection::read_request, the value of a header line after the colon
header_value(line, colon_pos) ==
  LET raw  == SubstrFrom(line, colon_pos + 1)
      k    == FirstNotBlank(raw, 0)
      lead == IF k = -1 THEN "" ELSE SubstrFrom(raw, k)
  IN  IF lead # "" /\ CharAt(lead, Len(lead)) = "\r"
        THEN SubSeq(lead, 1, Len(lead) - 1)
        ELSE lead

\* the header loop ending at the first line without a colon
RECURSIVE ParseHeaders_StopAtColonless(_, _, _)
ParseHeaders_StopAtColonless(s, pos, headers) ==
  LET g == Getline(s, pos)
  IN  IF ~g.ok \/ g.line = "\r" THEN headers
      ELSE LET colon_pos == Find(g.line, ":")
           IN  IF colon_pos # -1
                 THEN ParseHeaders_StopAtColonless(s, g.pos,
                        MapPut(headers, SubSeq(g.line, 1, colon_pos),
                               header_value(g.line, colon_pos)))
                 ELSE headers

\* the header loop reading on past the blank line, to the end of the buffer
RECURSIVE ParseHeaders_PastBlankLine(_, _, _)
ParseHeaders_PastBlankLine(s, pos, headers) ==
  LET g == Getline(s, pos)
  IN  IF ~g.ok THEN headers
      ELSE LET colon_pos == Find(g.line, ":")
           IN  IF colon_pos # -1
                 THEN ParseHeaders_PastBlankLine(s, g.pos,
                        MapPut(headers, SubSeq(g.line, 1, colon_pos),
                               header_value(g.line, colon_pos)))
                 ELSE ParseHeaders_PastBlankLine(s, g.pos, headers)

\* Connection::read_request, the header loop from stream position pos
RECURSIVE ParseHeaders(_, _, _)
ParseHeaders(s, pos, headers) ==
  LET g == Getline(s, pos)
  IN  IF ~g.ok \/ g.line = "\r" THEN headers
      ELSE LET colon_pos == Find(g.line, ":")
           IN  IF colon_pos # -1
                 THEN ParseHeaders(s, g.pos,
                        MapPut(headers, SubSeq(g.line, 1, colon_pos),
                               header_value(g.line, colon_pos)))
                 ELSE ParseHeaders(s, g.pos, headers)

\* ParseRequest testing the method alone: an empty path is let through
ParseRequest_MethodOnly(request_buffer_) ==
  LET first  == Getline(request_buffer_, 0)
      method == Extract(first.line, 0)
      path   == Extract(first.line, method.pos)
  IN  IF first.ok /\ first.line # "" /\ method.word # ""
        THEN [malformed |-> FALSE, method |-> method.word, path |-> path.word,
              headers |-> ParseHeaders(request_buffer_, first.pos, <<>>)]
        ELSE [malformed |-> TRUE, method |-> "", path |-> "", headers |-> <<>>]

\* Connection::read_request, parsing once the buffer holds "\r\n\r\n":
\* malformed tells that the 400 branch is taken
ParseRequest(request_buffer_) ==
  LET first  == Getline(request_buffer_, 0)
      method == Extract(first.line, 0)
      path   == Extract(first.line, method.pos)
  IN  IF first.ok /\ first.line # ""
        THEN IF method.word = "" \/ path.word = ""
               THEN [malformed |-> TRUE, method |-> method.word,
                     path |-> path.word, headers |-> <<>>]
               ELSE [malformed |-> FALSE, method |-> method.word,
                     path |-> path.word,
                     headers |-> ParseHeaders(request_buffer_, first.pos, <<>>)]
        ELSE [malformed |-> TRUE, method |-> "", path |-> "", headers |-> <<>>]

-----------------------------------------------------------------------------
(* Inputs                                                                  *)

\* "A" is the server's router, "B" a router that is mounted into it
RouterIds == {"A", "B"}
\* path arguments of Get, of Post, of group and of serveStatic
GetPaths == {"/f", "/s/..", "/"}
PostPaths == {"/f"}
GroupPaths == {"/s", "/", "/s//"}
StaticPrefixes == {"/s", "/"}
\* filesystem roots given to serveStatic, relative to the working directory
FsRoots == {"pub", "alt"}
\* requests handed to match: <<method, path>>
Requests ==
  ({"GET"} \X {"/", "/f", "/f/", "/s", "/s/f", "/s/s/f", "/s/g",
               "/s/../key", "/s/../", "f"})
  \cup {<<"POST", "/f">>, <<"POST", "/s/..">>, <<"get", "/f">>}
\* the number of registration calls of one run
MaxOps == 3

FileStore1 ==
  [dirs   |-> {"/", "/srv", "/srv/pub", "/srv/alt"},
   files  |-> [p \in {"/srv/pub/index.html", "/srv/pub/f", "/srv/alt/f",
                      "/srv/alt/g", "/srv/key"} |->
                 CASE p = "/srv/pub/index.html" -> "<p>"
                   [] p = "/srv/pub/f" -> "F1"
                   [] p = "/srv/alt/f" -> "F2"
                   [] p = "/srv/alt/g" -> "G2"
                   [] OTHER -> "K"],
   links  |-> <<>>,
   denied |-> {}]

\* the same store without pub/f, pub/index.html and the file outside the roots
FileStore2 ==
  [FileStore1 EXCEPT !.files =
     [p \in {"/srv/alt/f", "/srv/alt/g"} |-> FileStore1.files[p]]]

FileStores == {FileStore1, FileStore2}

NoMatch == [router |-> "", method |-> "", path |-> "", res |-> <<>>]

\* no function is called on its own
NoCall == [fn |-> "", arg |-> "", result |-> ""]

\* the acceptor before run(): no accept is pending, none has completed
NoAccept == [pending |-> 0, last |-> "none"]

-----------------------------------------------------------------------------
(* Registration and matching as steps                                      *)

RouterVarsInit ==
  /\ router = [r \in RouterIds |-> EmptyRouter]
  /\ frames = <<>>
  /\ nOps = 0
  /\ regs = <<>>
  /\ lastMatch = NoMatch

\* a registration call can be made: the budget of calls is not used up and
\* no match call is in progress
CanRegister == nOps < MaxOps /\ lastMatch = NoMatch

\* the prefix arguments of the group calls of router r in progress,
\* outermost first
ActiveGroups(r) ==
  LET mine == SelectSeq(frames, LAMBDA f : f.router = r)
  IN  [i \in 1..Len(mine) |-> mine[i].prefix]

\* what is recorded of a Get or Post call: its router, method and path
\* argument and the groups it was made in; of a mount call, with "MOUNT"
\* for the method and the prefix for the path, and with the router mounted
\* (other), this router before and after the call and the router mounted
\* as it was
Registration(r, method, path) ==
  [router |-> r, method |-> method, path |-> path, groups |-> ActiveGroups(r)]

\* Router::Get / Router::Post on router r; the handler registered by the
\* n-th registration call is handler n
Get(r, path) ==
  /\ CanRegister
  /\ router' = [router EXCEPT ![r] = add_route(@, "GET", path, nOps + 1)]
  /\ regs' = MapPut(regs, nOps + 1, Registration(r, "GET", path))
  /\ nOps' = nOps + 1
  /\ UNCHANGED <<acceptor, call, frames, fs, lastMatch, conn, server>>

Post(r, path) ==
  /\ CanRegister
  /\ router' = [router EXCEPT ![r] = add_route(@, "POST", path, nOps + 1)]
  /\ regs' = MapPut(regs, nOps + 1, Registration(r, "POST", path))
  /\ nOps' = nOps + 1
  /\ UNCHANGED <<acceptor, call, frames, fs, lastMatch, conn, server>>

ServeStatic(r, path_prefix, fs_path) ==
  /\ CanRegister
  /\ router' = [router EXCEPT ![r] = serveStatic(@, path_prefix, fs_path)]
  /\ nOps' = nOps + 1
  /\ UNCHANGED <<acceptor, call, frames, regs, fs, lastMatch, conn, server>>

\* Router::group on router r, from its call to the call of config_func
GroupEnter(r, prefix) ==
  /\ CanRegister
  /\ frames' = Append(frames,
       [router |-> r, prefix |-> prefix,
        current_prefix_backup |-> router[r].current_group_prefix_])
  /\ router' = [router EXCEPT
       ![r].current_group_prefix_ = group_prefix(router[r], prefix)]
  /\ nOps' = nOps + 1
  /\ UNCHANGED <<acceptor, call, regs, fs, lastMatch, conn, server>>

\* Router::group, config_func of the innermost group returns
GroupReturn ==
  /\ frames # <<>>
  /\ lastMatch = NoMatch
  /\ LET frame == frames[Len(frames)]
     IN  router' = [router EXCEPT
           ![frame.router].current_group_prefix_ = group_restore(frame)]
  /\ frames' = SubSeq(frames, 1, Len(frames) - 1)
  /\ UNCHANGED <<acceptor, call, nOps, regs, fs, lastMatch, conn, server>>

\* Router::mount of router o into router r
Mount(r, prefix, o) ==
  /\ CanRegister
  /\ r # o
  /\ LET mount_prefix == normalize_path_segment(prefix)
     IN  \E rt \in mount_routes(router[r], mount_prefix, router[o]) :
           router' = [router EXCEPT
             ![r].routes_ = rt,
             ![r].static_paths_ =
                @ \o mount_statics(mount_prefix, router[o].static_paths_)]
  /\ regs' = MapPut(regs, nOps + 1,
       Registration(r, "MOUNT", prefix) @@
         [other |-> o, before |-> router[r], source |-> router[o],
          after |-> router'[r]])
  /\ nOps' = nOps + 1
  /\ UNCHANGED <<acceptor, call, frames, fs, lastMatch, conn, server>>

\* Router::match on router r for a request with this method and path
DoMatch(r, method, path) ==
  /\ lastMatch = NoMatch
  /\ lastMatch' = [router |-> r, method |-> method, path |-> path,
                   res |-> Match(router[r].routes_, router[r].static_paths_,
                                 fs, method, path)]
  /\ UNCHANGED <<acceptor, call, router, frames, nOps, regs, fs, conn, server>>

\* the caller of match is done with the handler it was given
MatchDone ==
  /\ lastMatch # NoMatch
  /\ lastMatch' = NoMatch
  /\ UNCHANGED <<acceptor, call, router, frames, nOps, regs, fs, conn, server>>

RouterInit ==
  /\ RouterVarsInit
  /\ fs \in FileStores
  /\ conn = <<>>
  /\ server = "idle"
  /\ call = NoCall
  /\ acceptor = NoAccept

RouterNext ==
  \/ \E p \in GetPaths : Get("A", p)
  \/ \E p \in PostPaths : Post("A", p)
  \/ \E p \in StaticPrefixes, root \in FsRoots : ServeStatic("A", p, root)
  \/ \E p \in GroupPaths : GroupEnter("A", p)
  \/ GroupReturn
  \/ \E q \in Requests : DoMatch("A", q[1], q[2])
  \/ MatchDone

SpecRouter == RouterInit /\ [][RouterNext]_vars

-----------------------------------------------------------------------------
(* Two routers, one mounted into the other                                 *)

\* the paths of the routes of the router that is mounted: "/f///" is stored
\* with a trailing slash, "/a b" has white space in it
MountedGetPaths == {"/f", "/g", "/f///", "/a b"}

\* the prefixes of the static mounts of the router that is mounted
MountedStaticPrefixes == {"/p", "/p//"}

\* the prefixes the router is mounted under
MountPrefixes == {"/s", "s/"}

\* the requests matched on the router mounted into
MountRequests ==
  {"GET", "POST"} \X {"/s/f", "/s/g", "/s/a", "/f", "/s/p/f"}

MountInit ==
  /\ RouterVarsInit
  /\ fs = FileStore1
  /\ conn = <<>>
  /\ server = "idle"
  /\ call = NoCall
  /\ acceptor = NoAccept

\* router "B" is configured and mounted into router "A", which has routes
\* and a static mount of its own; requests are matched on "A"
MountNext ==
  \/ Get("A", "/s/f")
  \/ ServeStatic("A", "/s", "pub")
  \/ \E p \in MountedGetPaths : Get("B", p)
  \/ Post("B", "/f")
  \/ \E p \in MountedStaticPrefixes : ServeStatic("B", p, "alt")
  \/ \E p \in MountPrefixes : Mount("A", p, "B")
  \/ \E q \in MountRequests : DoMatch("A", q[1], q[2])
  \/ MatchDone

SpecMount == MountInit /\ [][MountNext]_vars

-----------------------------------------------------------------------------
(* normalize_path_segment on its own                                       *)

\* the characters of the path strings normalized: the separator, a name
\* character and the dot
PathChars == {"/", "a", "."}

\* the longest path string normalized
MaxLen == 4

\* the strings over PathChars of at most n characters
RECURSIVE StringsUpTo(_)
StringsUpTo(n) ==
  IF n = 0 THEN {""}
  ELSE LET shorter == StringsUpTo(n - 1)
       IN  shorter \cup {s \o c : s \in shorter, c \in PathChars}

NormalizeInit ==
  /\ RouterVarsInit
  /\ fs = FileStore1
  /\ conn = <<>>
  /\ server = "idle"
  /\ call \in {[NoCall EXCEPT !.arg = p] : p \in StringsUpTo(MaxLen)}
  /\ acceptor = NoAccept

\* normalize_path_segment is called with the path string drawn
Normalize ==
  /\ call.fn = ""
  /\ call' = [fn |-> "normalize_path_segment", arg |-> call.arg,
              result |-> normalize_path_segment(call.arg)]
  /\ UNCHANGED <<acceptor, router, frames, nOps, regs, fs, lastMatch, conn, server>>

\* normalize_path_segment is called again with its own result, as
\* add_route, group and mount do after prepending a prefix
NormalizeAgain ==
  /\ call.fn = "normalize_path_segment"
  /\ call.result # call.arg
  /\ call' = [call EXCEPT !.arg = call.result,
                          !.result = normalize_path_segment(call.result)]
  /\ UNCHANGED <<acceptor, router, frames, nOps, regs, fs, lastMatch, conn, server>>

NormalizeNext == Normalize \/ NormalizeAgain

SpecNormalize == NormalizeInit /\ [][NormalizeNext]_vars


-----------------------------------------------------------------------------
(* Connection and Server (server.hpp)                                      *)

ConnIds == {"c1", "c2"}

\* std::array<char, 8192> buffer_: the most one read completion delivers
BufferSize == 8192

NoRequest == [method |-> "", path |-> "", headers |-> <<>>]

\* the handler called neither Response::JSON nor Response::sendFile
NoApi == [fn |-> "", arg |-> "", fault |-> "", raised |-> FALSE,
          returned |-> FALSE]

\* no handler was invoked
NotHandled ==
  [kind |-> "", handler |-> 0, outcome |-> "", left |-> NewResponse,
   api |-> NoApi]

\* a connection slot before the accept that fills it.
\*   state   "none", "reading" (a read is pending), "writing" (the write is
\*           pending), "closed", "abandoned" (no operation pending, nothing
\*           more happens), "escaped" (an exception left the completion
\*           callback)
\*   pending the bytes the client has sent and no read has delivered yet
\*   wire    the bytes handed to async_write
\*   reads   the number of async_read_some operations issued and not
\*           yet completed
\*   log     what the connection did once the header block was complete,
\*           in order: "match", "handler", "write" (async_write issued),
\*           "shutdown", "close"
\*   handled the handler invoked: the kind match returned, how the handler
\*           ended, the Response as it left it and, of the call of
\*           Response::JSON or Response::sendFile it made (api): the
\*           function, its argument, what the codec or the file store did
\*           (fault), whether an exception left the function and the
\*           value it returned
NoConn ==
  [state |-> "none", pending |-> "", request_buffer_ |-> "",
   request_ |-> NoRequest, response_ |-> NewResponse, wire |-> "",
   reads |-> 0, log |-> <<>>, handled |-> NotHandled]

\* what a registered handler does to the Response before it returns or throws
HandlerEffects == {"none", "text", "created_html"}

ApplyEffect(effect, res) ==
  CASE effect = "text" -> Text(res, "hello")
    [] effect = "created_html" ->
         HTML([res EXCEPT !.status_code = 201], "<h1>Hi</h1>")
    [] OTHER -> res

\* how a registered handler ends: it returns, throws a std::exception or
\* throws something else
HandlerOutcomes == {"return", "std_exception", "other_exception"}

\* what the file store does when sendFile opens, sizes and reads the file
FileIo == {"ok", "open_failed", "size_failed", "read_failed"}

\* what the codec writes for the value a handler passes to Response::JSON
JsonText == "[1,2]"

\* a registered handler that calls Response::JSON and catches nothing
\* (main.cpp, users.cpp): an exception that leaves JSON leaves the handler;
\* after JSON returned the handler returns or throws
JsonHandler(m, res) ==
  UNION {LET J == JSON(res, JsonText, c)
         IN  {[kind |-> "route", handler |-> m.handler, outcome |-> o,
               left |-> J.res,
               api |-> [fn |-> "JSON", arg |-> JsonText, fault |-> c,
                        raised |-> J.raised, returned |-> FALSE]] :
              o \in IF J.raised THEN {c} ELSE HandlerOutcomes} :
         c \in CodecOutcomes}

\* the handler match returned, invoked with the Response res: the ways it
\* can end, each with the Response as the handler leaves it
InvokeHandler(m, req, res, F) ==
  CASE m.kind = "route" ->
         {[kind |-> "route", handler |-> m.handler, outcome |-> o,
           left |-> ApplyEffect(e, res), api |-> NoApi] :
          e \in HandlerEffects, o \in HandlerOutcomes}
         \cup JsonHandler(m, res)
    [] m.kind = "file" ->
         {LET sent == sendFile(res, F, m.file, io)
          IN  [kind |-> "file", handler |-> 0,
               outcome |-> IF sent.raised THEN "std_exception" ELSE "return",
               left |-> sent.res,
               api |-> [fn |-> "sendFile", arg |-> m.file, fault |-> io,
                        raised |-> sent.raised,
                        returned |-> sent.returned]] :
          io \in FileIo}
    [] m.kind = "bad400" ->
         {[kind |-> "bad400", handler |-> 0, outcome |-> "return",
           left |-> Text([res EXCEPT !.status_code = 400], "Invalid path."),
           api |-> NoApi]}
    [] OTHER ->
         {[kind |-> "notfound", handler |-> 0, outcome |-> "return",
           left |-> Text([res EXCEPT !.status_code = 404],
                         "Not found: " \o req.path),
           api |-> NoApi]}

\* AfterHandler without the catch (...) clause: only a std::exception is
\* turned into the 500 response
AfterHandler_StdOnly(h) ==
  IF h.outcome = "std_exception"
    THEN Text([h.left EXCEPT !.status_code = 500], "Internal Server Error")
    ELSE h.left

\* Connection::process_request, the try/catch around the handler
AfterHandler(h) ==
  IF h.outcome = "return" THEN h.left
  ELSE Text([h.left EXCEPT !.status_code = 500], "Internal Server Error")

\* Connection::read_request, the 400 response of a malformed request line
BadRequest(res) == Text([res EXCEPT !.status_code = 400], "Bad Request")

\* send_response that shuts the socket down and closes it without waiting
\* for the write to complete
send_response_CloseAtOnce(C, order) ==
  [C EXCEPT !.wire = to_string(C.response_, order),
            !.log = @ \o <<"write", "shutdown", "close">>,
            !.state = "closed"]

\* Connection::send_response: the Response is rendered and the write issued
send_response(C, order) ==
  [C EXCEPT !.wire = to_string(C.response_, order),
            !.log = Append(@, "write"),
            !.state = "writing"]

\* Server::run up to io_context_.run(): do_accept arms the first accept
Run ==
  /\ server = "idle"
  /\ server' = "running"
  /\ acceptor' = [acceptor EXCEPT !.pending = @ + 1]
  /\ UNCHANGED <<call, router, frames, nOps, regs, fs, lastMatch, conn>>

\* Server::do_accept, the last statement of the completion callback: the
\* next accept is armed
do_accept(a) == [a EXCEPT !.pending = @ + 1]

\* the completion callback that arms no accept after a failed one
AcceptError_NoRearm ==
  /\ server = "running"
  /\ acceptor.pending > 0
  /\ acceptor' = [pending |-> acceptor.pending - 1, last |-> "failed"]
  /\ UNCHANGED <<call, router, frames, nOps, regs, fs, lastMatch, conn, server>>

\* Server::do_accept, an accept completes with an error (cancellation
\* too): nothing is made, the next accept is armed
AcceptError ==
  /\ server = "running"
  /\ acceptor.pending > 0
  /\ acceptor' = do_accept([pending |-> acceptor.pending - 1,
                            last |-> "failed"])
  /\ UNCHANGED <<call, router, frames, nOps, regs, fs, lastMatch, conn, server>>

\* Server::do_accept, an accept completes without error: the Connection is
\* made and started, which issues its first read, and the next accept is
\* armed
AcceptOk(c, stream) ==
  /\ server = "running"
  /\ acceptor.pending > 0
  /\ conn[c].state = "none"
  /\ conn' = [conn EXCEPT ![c] =
       [NoConn EXCEPT !.state = "reading", !.pending = stream,
                      !.reads = 1]]
  /\ acceptor' = do_accept([pending |-> acceptor.pending - 1, last |-> "ok"])
  /\ UNCHANGED <<call, router, frames, nOps, regs, fs, lastMatch, server>>

\* the byte counts a read completion of connection c can report
ReadSizes(c) ==
  1..(IF Len(conn[c].pending) < BufferSize THEN Len(conn[c].pending)
      ELSE BufferSize)

\* ReadMore that appends the bytes and issues no further read
ReadMore_NoReread(c, n) ==
  /\ server = "running"
  /\ conn[c].state = "reading"
  /\ LET buf == conn[c].request_buffer_ \o SubSeq(conn[c].pending, 1, n)
     IN  /\ Find(buf, "\r\n\r\n") = -1
         /\ conn' = [conn EXCEPT ![c].request_buffer_ = buf,
                                 ![c].pending = SubstrFrom(@, n),
                                 ![c].reads = @ - 1]
  /\ UNCHANGED <<acceptor, call, router, frames, nOps, regs, fs, lastMatch, server>>

\* ReadMore of connections that share one buffer: the bytes one connection
\* received are appended to the buffer of every connection that is reading
ReadMore_SharedBuffer(c, n) ==
  /\ server = "running"
  /\ conn[c].state = "reading"
  /\ LET got == SubSeq(conn[c].pending, 1, n)
         buf == conn[c].request_buffer_ \o got
     IN  /\ Find(buf, "\r\n\r\n") = -1
         /\ conn' = [d \in ConnIds |->
              IF d = c
                THEN [conn[c] EXCEPT !.request_buffer_ = buf,
                                     !.pending = SubstrFrom(@, n)]
                ELSE IF conn[d].state = "reading"
                       THEN [conn[d] EXCEPT !.request_buffer_ = @ \o got]
                       ELSE conn[d]]
  /\ UNCHANGED <<acceptor, call, router, frames, nOps, regs, fs, lastMatch, server>>

\* ReadMore that looks for "\r\n\r\n" in the bytes just read only: a
\* terminator that two reads deliver in parts is not seen
ReadMore_ChunkOnly(c, n) ==
  /\ server = "running"
  /\ conn[c].state = "reading"
  /\ LET buf == conn[c].request_buffer_ \o SubSeq(conn[c].pending, 1, n)
     IN  /\ Find(SubSeq(conn[c].pending, 1, n), "\r\n\r\n") = -1
         /\ conn' = [conn EXCEPT ![c].request_buffer_ = buf,
                                 ![c].pending = SubstrFrom(@, n)]
  /\ UNCHANGED <<acceptor, call, router, frames, nOps, regs, fs, lastMatch, server>>

\* Connection::read_request, the completion callback without error after n
\* bytes arrived, when the buffer still lacks "\r\n\r\n": the next read
ReadMore(c, n) ==
  /\ server = "running"
  /\ conn[c].state = "reading"
  /\ LET buf == conn[c].request_buffer_ \o SubSeq(conn[c].pending, 1, n)
     IN  /\ Find(buf, "\r\n\r\n") = -1
         /\ conn' = [conn EXCEPT ![c].request_buffer_ = buf,
                                 ![c].pending = SubstrFrom(@, n)]
  /\ UNCHANGED <<acceptor, call, router, frames, nOps, regs, fs, lastMatch, server>>

\* Connection::read_request, the completion callback without error after n
\* bytes arrived, when the buffer now holds "\r\n\r\n" and the request line
\* is malformed: the 400 response
ReadMalformed(c, n) ==
  /\ server = "running"
  /\ conn[c].state = "reading"
  /\ LET buf == conn[c].request_buffer_ \o SubSeq(conn[c].pending, 1, n)
         req == ParseRequest(buf)
         C   == [conn[c] EXCEPT
                   !.request_buffer_ = buf,
                   !.pending = SubstrFrom(@, n),
                   !.request_ = [method |-> req.method, path |-> req.path,
                                 headers |-> req.headers],
                   !.reads = @ - 1,
                   !.response_ = BadRequest(@)]
     IN  /\ Find(buf, "\r\n\r\n") # -1
         /\ req.malformed
         /\ \E order \in IterationOrders(DOMAIN C.response_.headers) :
              conn' = [conn EXCEPT ![c] = send_response(C, order)]
  /\ UNCHANGED <<acceptor, call, router, frames, nOps, regs, fs, lastMatch, server>>

\* Connection::read_request, the completion callback without error after n
\* bytes arrived, when the buffer now holds "\r\n\r\n" and the request line
\* parses: the headers, then Connection::process_request (match, the
\* handler, send_response), all in this one callback
ReadDispatch(c, n) ==
  /\ server = "running"
  /\ conn[c].state = "reading"
  /\ LET buf == conn[c].request_buffer_ \o SubSeq(conn[c].pending, 1, n)
         req == ParseRequest(buf)
         C   == [conn[c] EXCEPT
                   !.request_buffer_ = buf,
                   !.pending = SubstrFrom(@, n),
                   !.request_ = [method |-> req.method, path |-> req.path,
                                 headers |-> req.headers],
                   !.reads = @ - 1,
                   !.log = Append(@, "match")]
         m   == Match(router["A"].routes_, router["A"].static_paths_, fs,
                      req.method, req.path)
     IN  /\ Find(buf, "\r\n\r\n") # -1
         /\ ~req.malformed
         /\ IF m.kind = "throw"
              THEN /\ conn' = [conn EXCEPT ![c] = [C EXCEPT !.state = "escaped"]]
                   /\ server' = "stopped"
              ELSE /\ \E h \in InvokeHandler(m, C.request_, C.response_, fs) :
                        LET D == [C EXCEPT !.handled = h,
                                           !.response_ = AfterHandler(h),
                                           !.log = Append(@, "handler")]
                        IN  \E order \in IterationOrders(DOMAIN D.response_.headers) :
                              conn' = [conn EXCEPT ![c] = send_response(D, order)]
                   /\ UNCHANGED server
  /\ UNCHANGED <<acceptor, call, router, frames, nOps, regs, fs, lastMatch>>

\* ReadError that answers the client with a 400 response
ReadError_Answers(c) ==
  /\ server = "running"
  /\ conn[c].state = "reading"
  /\ LET C == [conn[c] EXCEPT !.reads = @ - 1, !.response_ = BadRequest(@)]
     IN  \E order \in IterationOrders(DOMAIN C.response_.headers) :
           conn' = [conn EXCEPT ![c] = send_response(C, order)]
  /\ UNCHANGED <<acceptor, call, router, frames, nOps, regs, fs, lastMatch, server>>

\* Connection::read_request, the completion callback with an error (end of
\* file, cancellation or a fault): nothing more is issued
ReadError(c) ==
  /\ server = "running"
  /\ conn[c].state = "reading"
  /\ conn' = [conn EXCEPT ![c].state = "abandoned", ![c].reads = @ - 1]
  /\ UNCHANGED <<acceptor, call, router, frames, nOps, regs, fs, lastMatch, server>>

\* WriteOk honouring "Connection: keep-alive": the socket stays open and
\* the next request is read
WriteOk_KeepAlive(c) ==
  /\ server = "running"
  /\ conn[c].state = "writing"
  /\ IF "Connection" \in DOMAIN conn[c].request_.headers
        /\ conn[c].request_.headers["Connection"] = "keep-alive"
       THEN conn' = [conn EXCEPT ![c].state = "reading", ![c].reads = 1,
                                 ![c].request_buffer_ = ""]
       ELSE conn' = [conn EXCEPT ![c].state = "closed",
                                 ![c].log = @ \o <<"shutdown", "close">>]
  /\ UNCHANGED <<acceptor, call, router, frames, nOps, regs, fs, lastMatch, server>>

\* Connection::send_response, the completion callback without error:
\* shutdown, then close
WriteOk(c) ==
  /\ server = "running"
  /\ conn[c].state = "writing"
  /\ conn' = [conn EXCEPT ![c].state = "closed",
                          ![c].log = @ \o <<"shutdown", "close">>]
  /\ UNCHANGED <<acceptor, call, router, frames, nOps, regs, fs, lastMatch, server>>

\* Connection::send_response, the completion callback with an error
WriteError(c) ==
  /\ server = "running"
  /\ conn[c].state = "writing"
  /\ conn' = [conn EXCEPT ![c].state = "abandoned"]
  /\ UNCHANGED <<acceptor, call, router, frames, nOps, regs, fs, lastMatch, server>>

-----------------------------------------------------------------------------
(* The served configuration (main.cpp, users.cpp) and its clients          *)

\* createUserApiRouter
UserApiRouter ==
  add_route(add_route(EmptyRouter, "GET", "/list", 4), "GET", "/profile", 5)

\* routes registered on the server before the mount: three of main's, one
\* for a file the static mount serves and one for a path that leaves the
\* served directory
MainRoutes ==
  add_route(add_route(add_route(add_route(add_route(EmptyRouter,
    "GET", "/", 1), "GET", "/hello", 2), "GET", "/status", 3),
    "GET", "/static/index.html", 6), "GET", "/static/../key", 7)

\* main: the routes, the mount of the user router, the static mount
MainRouter ==
  LET mount_prefix == normalize_path_segment("/api/users")
      mounted == [MainRoutes EXCEPT
        !.routes_ = CHOOSE rt \in mount_routes(MainRoutes, mount_prefix,
                                               UserApiRouter) : TRUE,
        !.static_paths_ = @ \o mount_statics(mount_prefix,
                                             UserApiRouter.static_paths_)]
  IN  serveStatic(mounted, "/static", "./public")

\* the directory main serves, with a directory that cannot be searched and
\* a file outside the served directory
ServerFileStore ==
  [dirs   |-> {"/", "/srv", "/srv/public", "/srv/public/priv"},
   files  |-> [p \in {"/srv/public/index.html", "/srv/public/style.css",
                      "/srv/key"} |->
                 CASE p = "/srv/public/index.html" -> "<p>Haka</p>"
                   [] p = "/srv/public/style.css" -> "p{}"
                   [] OTHER -> "K"],
   links  |-> <<>>,
   denied |-> {"/srv/public/priv"}]

\* the byte streams clients send
ClientStreams ==
  {"GET /status HTTP/1.1\r\nHost: x\r\n\r\n",
   "GET /status HTTP/1.1\r\nConnection: keep-alive\r\n\r\nGET /hello HTTP/1.1\r\nHost: y\r\n\r\n",
   "GET /static/style.css HTTP/1.1\r\n\r\n",
   "GET /static/index.html HTTP/1.1\r\n\r\n",
   "GET /static/../key HTTP/1.1\r\n\r\n",
   "GET /static/priv/x HTTP/1.1\r\n\r\n",
   "POST /status HTTP/1.1\r\nbad line\r\nA:  b\r\n\r\nbody",
   "GET /nope HTTP/1.1\r\n\r\n",
   "GET /hello/\r\n\r\n",
   "GET\r\n\r\n",
   "\r\n\r\n",
   "\n\r\n\r\n",
   "GET /status HTTP/1.1\r\nHost: x\r\n"}

ConnInit ==
  /\ router = [r \in RouterIds |-> IF r = "A" THEN MainRouter ELSE UserApiRouter]
  /\ frames = <<>>
  /\ nOps = 7
  /\ regs = <<>>
  /\ fs = ServerFileStore
  /\ lastMatch = NoMatch
  /\ conn = [c \in ConnIds |-> NoConn]
  /\ server = "running"
  /\ call = NoCall
  /\ acceptor = [NoAccept EXCEPT !.pending = 1]

\* one connection served by the running server
ConnNext ==
  \/ \E s \in ClientStreams : AcceptOk("c1", s)
  \/ \E n \in ReadSizes("c1") : ReadMore("c1", n)
  \/ \E n \in ReadSizes("c1") : ReadMalformed("c1", n)
  \/ \E n \in ReadSizes("c1") : ReadDispatch("c1", n)
  \/ ReadError("c1")
  \/ WriteOk("c1")
  \/ WriteError("c1")

SpecConn == ConnInit /\ [][ConnNext]_vars

\* one connection served without I/O errors: every read and the write
\* complete without an error code
LiveNext ==
  \/ \E s \in ClientStreams : AcceptOk("c1", s)
  \/ \E n \in ReadSizes("c1") : ReadMore("c1", n)
  \/ \E n \in ReadSizes("c1") : ReadMalformed("c1", n)
  \/ \E n \in ReadSizes("c1") : ReadDispatch("c1", n)
  \/ WriteOk("c1")

\* io_context_.run() runs the completion callback of every operation that
\* has completed: a read for which bytes have arrived and a write do
\* complete, and their callbacks are run
SpecLive ==
  /\ ConnInit
  /\ [][LiveNext]_vars
  /\ WF_vars(\E n \in ReadSizes("c1") :
               ReadMore("c1", n) \/ ReadMalformed("c1", n) \/ ReadDispatch("c1", n))
  /\ WF_vars(WriteOk("c1"))

-----------------------------------------------------------------------------
(* The reactor: Server::run, the accept loop and two connections, with     *)
(* the completion callback that dispatches a request taken statement by    *)
(* statement                                                               *)

\* a reactor whose callbacks run on several threads
Idle_ManyThreads == TRUE

\* io_context_.run() is called once, by the thread that called
\* Server::run: a completion callback is started when none is running
Idle == call = NoCall

\* the read callback of connection c is running and has come to this point
InCallback(c, at) == call = [fn |-> "read_request", arg |-> c, result |-> at]

\* Connection::read_request, the completion callback without error after n
\* bytes arrived, when the buffer now holds "\r\n\r\n" and the request line
\* parses: the request line and the headers are parsed
BeginDispatch(c, n) ==
  /\ server = "running"
  /\ Idle
  /\ conn[c].state = "reading"
  /\ LET buf == conn[c].request_buffer_ \o SubSeq(conn[c].pending, 1, n)
         req == ParseRequest(buf)
     IN  /\ Find(buf, "\r\n\r\n") # -1
         /\ ~req.malformed
         /\ conn' = [conn EXCEPT ![c] = [@ EXCEPT
               !.request_buffer_ = buf,
               !.pending = SubstrFrom(@, n),
               !.request_ = [method |-> req.method, path |-> req.path,
                             headers |-> req.headers],
               !.reads = @ - 1,
               !.state = "dispatching"]]
  /\ call' = [fn |-> "read_request", arg |-> c, result |-> "parsed"]
  /\ UNCHANGED <<acceptor, router, frames, nOps, regs, fs, lastMatch, server>>

\* Connection::process_request, server_.get_handler(request_): an
\* exception of match leaves the callback and io_context_.run()
GetHandler(c) ==
  /\ server = "running"
  /\ InCallback(c, "parsed")
  /\ LET m == Match(router["A"].routes_, router["A"].static_paths_, fs,
                    conn[c].request_.method, conn[c].request_.path)
     IN  /\ lastMatch' = [router |-> "A", method |-> conn[c].request_.method,
                          path |-> conn[c].request_.path, res |-> m]
         /\ IF m.kind = "throw"
              THEN /\ conn' = [conn EXCEPT ![c].log = Append(@, "match"),
                                           ![c].state = "escaped"]
                   /\ server' = "stopped"
                   /\ call' = NoCall
              ELSE /\ conn' = [conn EXCEPT ![c].log = Append(@, "match")]
                   /\ call' = [call EXCEPT !.result = "matched"]
                   /\ UNCHANGED server
  /\ UNCHANGED <<acceptor, router, frames, nOps, regs, fs>>

\* Connection::process_request, the handler call in its try block: the
\* step is taken when the handler returns or throws
RunHandler(c) ==
  /\ server = "running"
  /\ InCallback(c, "matched")
  /\ \E h \in InvokeHandler(lastMatch.res, conn[c].request_,
                             conn[c].response_, fs) :
       conn' = [conn EXCEPT ![c].handled = h,
                            ![c].response_ = AfterHandler(h),
                            ![c].log = Append(@, "handler")]
  /\ call' = [call EXCEPT !.result = "handled"]
  /\ lastMatch' = NoMatch
  /\ UNCHANGED <<acceptor, router, frames, nOps, regs, fs, server>>

\* Connection::process_request, send_response(): the write is issued and
\* the callback returns
SendResponse(c) ==
  /\ server = "running"
  /\ InCallback(c, "handled")
  /\ \E order \in IterationOrders(DOMAIN conn[c].response_.headers) :
       conn' = [conn EXCEPT ![c] = send_response(@, order)]
  /\ call' = NoCall
  /\ UNCHANGED <<acceptor, router, frames, nOps, regs, fs, lastMatch, server>>

\* the byte streams the two clients send
ReactorStreams ==
  {"GET /hello\r\n\r\n", "GET\r\n\r\n", "GET /static/priv/x\r\n\r\n"}

ReactorInit ==
  /\ router = [r \in RouterIds |-> IF r = "A" THEN MainRouter ELSE UserApiRouter]
  /\ frames = <<>>
  /\ nOps = 7
  /\ regs = <<>>
  /\ fs = ServerFileStore
  /\ lastMatch = NoMatch
  /\ conn = [c \in ConnIds |-> NoConn]
  /\ server = "idle"
  /\ call = NoCall
  /\ acceptor = NoAccept

ReactorNext ==
  \/ Run
  \/ Idle /\ AcceptError
  \/ \E c \in ConnIds, s \in ReactorStreams : Idle /\ AcceptOk(c, s)
  \/ \E c \in ConnIds : \E n \in ReadSizes(c) : Idle /\ ReadMore(c, n)
  \/ \E c \in ConnIds : \E n \in ReadSizes(c) : Idle /\ ReadMalformed(c, n)
  \/ \E c \in ConnIds : \E n \in ReadSizes(c) : BeginDispatch(c, n)
  \/ \E c \in ConnIds : GetHandler(c)
  \/ \E c \in ConnIds : RunHandler(c)
  \/ \E c \in ConnIds : SendResponse(c)
  \/ \E c \in ConnIds : Idle /\ ReadError(c)
  \/ \E c \in ConnIds : Idle /\ WriteOk(c)
  \/ \E c \in ConnIds : Idle /\ WriteError(c)

SpecReactor == ReactorInit /\ [][ReactorNext]_vars

-----------------------------------------------------------------------------
(* Groups whose config_func throws, registrations made inside a group, and *)
(* a served directory with a sibling directory                             *)

\* Router::group, config_func of the innermost group throws: the exception
\* leaves group() at the call of config_func, the statement that restores
\* the prefix is not reached.  The caller that catches it goes on
\* registering; a caller inside another config_func that does not catch it
\* leaves that group the same way.
GroupRaise ==
  /\ frames # <<>>
  /\ lastMatch = NoMatch
  /\ frames' = SubSeq(frames, 1, Len(frames) - 1)
  /\ UNCHANGED <<acceptor, call, router, nOps, regs, fs, lastMatch, conn, server>>

\* FileStore1 with a directory beside the served directory pub whose name
\* begins with "pub"
SiblingStore ==
  [FileStore1 EXCEPT
     !.dirs = @ \cup {"/srv/pub-private"},
     !.files = [p \in DOMAIN @ \cup {"/srv/pub-private/x"} |->
                  IF p = "/srv/pub-private/x" THEN "PRIVATE" ELSE @[p]]]

\* the requests matched: routes as registered, below a group, and static
\* candidates inside the served directory, beside it and above it
GroupRequests ==
  {"/x", "/a//", "/g/x", "/m/x", "/s/f", "/s/x", "/s/../pub-private/x",
   "/s/../key", "/s/../nokey"}

\* router "B" has one route and one static mount; router "A" is empty
GroupInit ==
  /\ router = [r \in RouterIds |->
                 IF r = "A" THEN EmptyRouter
                 ELSE serveStatic(add_route(EmptyRouter, "GET", "/x", 9),
                                  "/t", "alt")]
  /\ frames = <<>>
  /\ nOps = 0
  /\ regs = <<>>
  /\ lastMatch = NoMatch
  /\ fs = SiblingStore
  /\ conn = <<>>
  /\ server = "idle"
  /\ call = NoCall
  /\ acceptor = NoAccept

GroupNext ==
  \/ \E p \in {"/x", "/a//"} : Get("A", p)
  \/ \E p \in {"/", "/g"} : GroupEnter("A", p)
  \/ GroupReturn
  \/ GroupRaise
  \/ ServeStatic("A", "/s", "pub")
  \/ \E p \in {"/", "/m"} : Mount("A", p, "B")
  \/ \E q \in GroupRequests : DoMatch("A", "GET", q)
  \/ MatchDone

SpecGroup == GroupInit /\ [][GroupNext]_vars


-----------------------------------------------------------------------------
(* Response::to_string on its own: a handler fills the Response, the       *)
(* connection renders it                                                   *)

\* a handler got a fresh Response and set its status, then called Text or
\* HTML with a body; call.arg holds the Response
RenderInit ==
  /\ RouterVarsInit
  /\ fs = FileStore1
  /\ conn = <<>>
  /\ server = "idle"
  /\ acceptor = NoAccept
  /\ call \in {[NoCall EXCEPT !.arg = res] :
       res \in UNION {{Text([NewResponse EXCEPT !.status_code = sc], b),
                       HTML([NewResponse EXCEPT !.status_code = sc], b)} :
                      sc \in {200, 404, 299}, b \in {"", "hello", "a\r\nb"}}}

\* the handler assigns to an entry of the public member headers
SetHeader(name, value) ==
  /\ call.fn = ""
  /\ call' = [call EXCEPT !.arg.headers = MapPut(@, name, value)]
  /\ UNCHANGED <<acceptor, router, frames, nOps, regs, fs, lastMatch, conn, server>>

\* Connection::send_response calls response_.to_string(); the map iterates
\* in some order
Render ==
  /\ call.fn = ""
  /\ \E order \in IterationOrders(DOMAIN call.arg.headers) :
       call' = [fn |-> "to_string", arg |-> call.arg,
                result |-> to_string(call.arg, order)]
  /\ UNCHANGED <<acceptor, router, frames, nOps, regs, fs, lastMatch, conn, server>>

RenderNext ==
  \/ \E name \in {"Content-Length", "X-Id"}, value \in {"0", "5"} :
       SetHeader(name, value)
  \/ Render

SpecRender == RenderInit /\ [][RenderNext]_vars

-----------------------------------------------------------------------------
(* Properties: helpers                                                     *)

Range(seq) == {seq[i] : i \in DOMAIN seq}

\* how often event e is in a connection's log
Count(log, e) == Cardinality({i \in DOMAIN log : log[i] = e})

\* the lines of written bytes before the blank line, and the bytes after it
RECURSIVE LinesOf(_)
LinesOf(s) ==
  LET k == Find(s, "\r\n")
  IN  IF k = -1 THEN <<s>>
      ELSE <<SubSeq(s, 1, k)>> \o LinesOf(SubstrFrom(s, k + 2))

WireLines(wire) == LinesOf(SubSeq(wire, 1, Find(wire, "\r\n\r\n")))

WireBody(wire) == SubstrFrom(wire, Find(wire, "\r\n\r\n") + 4)

\* the header terminator has arrived on connection c
HeadersComplete(c) == Find(conn[c].request_buffer_, "\r\n\r\n") # -1

\* the connection's response was handed to the socket
ResponseIssued(c) == "write" \in Range(conn[c].log)

\* static mount i of these mounts matches the path and its candidate is an
\* existing regular file
Servable(statics, F, i, path) ==
  /\ prefix_matches(statics[i][1], path)
  /\ LET st == Walk(F, full_fs_path(statics[i][1], statics[i][2], path))
     IN  st.err = "ok" /\ st.path \in DOMAIN F.files

\* static mount i matches the path and the canonical path of its candidate
\* does not have the canonical root of the mount as a prefix
Escaping(statics, F, i, path) ==
  /\ prefix_matches(statics[i][1], path)
  /\ LET root == Walk(F, Absolute(statics[i][2]))
         cand == Walk(F, full_fs_path(statics[i][1], statics[i][2], path))
     IN  root.err = "ok" /\ cand.err = "ok"
         /\ ~StartsWith(cand.path, root.path)

\* static mount i matches the path and its candidate cannot be resolved
\* for another reason than a missing file
Faulting(statics, F, i, path) ==
  /\ prefix_matches(statics[i][1], path)
  /\ Walk(F, full_fs_path(statics[i][1], statics[i][2], path)).err = "fault"

\* static mount i does not decide the match of the path
PassedOver(statics, F, i, path) ==
  prefix_matches(statics[i][1], path) =>
    LET cand == Walk(F, full_fs_path(statics[i][1], statics[i][2], path))
    IN  /\ cand.err # "fault"
        /\ cand.err = "ok" =>
              /\ cand.path \notin DOMAIN F.files
              /\ LET root == Walk(F, Absolute(statics[i][2]))
                 IN  root.err = "ok" => StartsWith(cand.path, root.path)

-----------------------------------------------------------------------------
(* Properties of the connection, under SpecConn                            *)

\* C1: when the handler that match returned throws, whatever it throws and
\* whatever it did to the Response before, the Response is 500 "Internal
\* Server Error" as text/plain, these are the bytes written, the write is
\* issued, a completed write is followed by shutdown and close, and no
\* exception leaves the connection (the server keeps running).
C1_HandlerFaultIs500 ==
  \A c \in ConnIds :
    conn[c].handled.outcome \in {"std_exception", "other_exception"} =>
      /\ conn[c].response_.status_code = 500
      /\ conn[c].response_.body = "Internal Server Error"
      /\ conn[c].response_.headers["Content-Type"] = "text/plain"
      /\ ResponseIssued(c)
      /\ WireLines(conn[c].wire)[1] = "HTTP/1.1 500 Internal Server Error"
      /\ "Content-Type: text/plain" \in Range(WireLines(conn[c].wire))
      /\ WireBody(conn[c].wire) = "Internal Server Error"
      /\ conn[c].state \in {"writing", "closed", "abandoned"}
      /\ (conn[c].state = "closed" =>
            conn[c].log = <<"match", "handler", "write", "shutdown", "close">>)
      /\ server = "running"

\* C1 witness: a handler set 201 and an HTML body, threw something that is
\* no std::exception, and the connection is closed after its write.
C1_Witness ==
  \E c \in ConnIds :
    /\ conn[c].handled.outcome = "other_exception"
    /\ conn[c].handled.left.status_code = 201
    /\ conn[c].handled.left.body = "<h1>Hi</h1>"
    /\ conn[c].state = "closed"

\* C2: once the header terminator has arrived and the request line gave an
\* empty method or an empty path, the Response is 400 as text/plain and was
\* handed to the socket at once: match was not called, no handler invoked.
C2_MalformedIs400 ==
  \A c \in ConnIds :
    (/\ HeadersComplete(c)
     /\ (conn[c].request_.method = "" \/ conn[c].request_.path = "")) =>
      /\ conn[c].response_.status_code = 400
      /\ conn[c].response_.headers["Content-Type"] = "text/plain"
      /\ conn[c].response_.body # ""
      /\ conn[c].state \in {"writing", "closed", "abandoned"}
      /\ conn[c].log \in {<<"write">>, <<"write", "shutdown", "close">>}
      /\ WireLines(conn[c].wire)[1] = "HTTP/1.1 400 Bad Request"
      /\ conn[c].handled = NotHandled

\* C2 witness: the request line "GET" (a method, no path) was answered 400
\* and the connection closed.
C2_Witness ==
  \E c \in ConnIds :
    /\ conn[c].request_buffer_ = "GET\r\n\r\n"
    /\ conn[c].request_.method = "GET"
    /\ conn[c].response_.status_code = 400
    /\ conn[c].state = "closed"

\* C3: a connection serves one request: once its response is handed to the
\* socket no read is pending or issued again, and after the write completed
\* the socket was shut down and then closed, also when the request asked
\* for keep-alive.
C3_OneShot ==
  \A c \in ConnIds :
    /\ ResponseIssued(c) =>
         /\ conn[c].reads = 0
         /\ conn[c].state \in {"writing", "closed", "abandoned"}
         /\ Count(conn[c].log, "write") = 1
    /\ conn[c].state = "closed" =>
         /\ Len(conn[c].log) >= 3
         /\ SubSeq(conn[c].log, Len(conn[c].log) - 2, Len(conn[c].log))
              = <<"write", "shutdown", "close">>
    /\ conn[c].state \in {"writing", "abandoned"} =>
         ({"shutdown", "close"} \cap Range(conn[c].log) = {})

\* C3 witness: a request with "Connection: keep-alive" and a second request
\* behind it was answered, the connection is closed, the second request
\* was never read.
C3_Witness ==
  \E c \in ConnIds :
    /\ conn[c].state = "closed"
    /\ "Connection" \in DOMAIN conn[c].request_.headers
    /\ conn[c].request_.headers["Connection"] = "keep-alive"
    /\ conn[c].pending # ""

\* C4 as claimed: a well-formed request whose method and normalized path
\* are a registered route, and for which match returned no static file,
\* has that route's handler invoked, once.
C4_RouteWhenNoStaticFile ==
  \A c \in ConnIds :
    LET C   == conn[c]
        key == RouteKey(C.request_.method,
                        normalize_path_segment(C.request_.path))
        R   == router["A"]
    IN  (/\ "match" \in Range(C.log)
         /\ key \in DOMAIN R.routes_
         /\ "handler" \in Range(C.log)
         /\ C.handled.kind # "file") =>
          /\ C.handled.kind = "route"
          /\ C.handled.handler = R.routes_[key]
          /\ Count(C.log, "handler") = 1

\* C4 as amended: a well-formed request whose method and normalized path
\* are a registered route, and which every static mount passes over (none
\* has a file, none answers 400 for a candidate outside its root, none
\* faults), has that route's handler invoked, once; when the handler
\* returns, the bytes written are the status line ("HTTP/1.1 200 OK" for
\* the default status), the Response's headers, Content-Length with the
\* length of the body the handler set, a blank line and that body.
C4_RouteHandlerAndBytes ==
  \A c \in ConnIds :
    LET C   == conn[c]
        key == RouteKey(C.request_.method,
                        normalize_path_segment(C.request_.path))
        R   == router["A"]
    IN  (/\ "match" \in Range(C.log)
         /\ key \in DOMAIN R.routes_
         /\ \A i \in DOMAIN R.static_paths_ :
              PassedOver(R.static_paths_, fs, i, C.request_.path)) =>
          /\ C.handled.kind = "route"
          /\ C.handled.handler = R.routes_[key]
          /\ Count(C.log, "handler") = 1
          /\ C.handled.outcome = "return" =>
               /\ ResponseIssued(c)
               /\ (C.handled.left.status_code = 200 =>
                     WireLines(C.wire)[1] = "HTTP/1.1 200 OK")
               /\ \A n \in DOMAIN C.handled.left.headers :
                    (n \o ": " \o C.handled.left.headers[n])
                      \in Range(WireLines(C.wire))
               /\ Len(WireLines(C.wire)) =
                    Cardinality(DOMAIN C.handled.left.headers) + 2
               /\ WireLines(C.wire)[Len(WireLines(C.wire))] =
                    "Content-Length: " \o ToString(Len(C.handled.left.body))
               /\ WireBody(C.wire) = C.handled.left.body

\* C4 witness: "GET /status" with a Host header reached the handler
\* registered for /status, which set the body "hello" and returned; the
\* response is written and the connection closed.
C4_Witness ==
  \E c \in ConnIds :
    /\ conn[c].request_.path = "/status"
    /\ conn[c].request_.method = "GET"
    /\ "Host" \in DOMAIN conn[c].request_.headers
    /\ conn[c].handled.handler = 3
    /\ conn[c].handled.outcome = "return"
    /\ conn[c].handled.left.body = "hello"
    /\ conn[c].state = "closed"


-----------------------------------------------------------------------------
(* Properties of the router, under SpecRouter                              *)

\* the router, mounts, request and result of the last match call
MR == router[lastMatch.router]
MS == MR.static_paths_
MPath == lastMatch.path
MRes == lastMatch.res
MKey == RouteKey(lastMatch.method, normalize_path_segment(lastMatch.path))

\* the candidate file of static mount i for the matched path
Candidate(i) == full_fs_path(MS[i][1], MS[i][2], MPath)

\* mount i matches the matched path and its canonical candidate does not
\* have the canonical root of the mount as a prefix
Escapes(i) == Escaping(MS, fs, i, MPath)

\* no mount before mount i decides the match
Reached(i) == \A j \in 1..(i - 1) : PassedOver(MS, fs, j, MPath)

\* C5 as claimed: the first mount, in registration order, that matches and
\* whose candidate is an existing regular file wins: match returns the
\* handler that sends that file.
C5_FirstFileWins ==
  lastMatch # NoMatch =>
    \A i \in DOMAIN MS :
      (/\ Servable(MS, fs, i, MPath)
       /\ \A j \in 1..(i - 1) : ~Servable(MS, fs, j, MPath)) =>
        /\ MRes.kind = "file"
        /\ MRes.file = Candidate(i)

\* C5 as amended: static mounts come first, in registration order: the
\* first mount that matches and has a regular file wins unless that mount
\* or a matching mount before it has a candidate outside its root or one
\* that faults; a file returned is always that first mount's; the route
\* table is consulted only when no mount has a file, so a route is never
\* returned for a path a mount serves; the 404 fallback is returned only
\* when the route lookup misses too.
C5_MatchPriority ==
  lastMatch # NoMatch =>
    /\ \A i \in DOMAIN MS :
         (/\ Servable(MS, fs, i, MPath)
          /\ \A j \in 1..(i - 1) : ~Servable(MS, fs, j, MPath)
          /\ \A j \in 1..i : /\ ~Escaping(MS, fs, j, MPath)
                              /\ ~Faulting(MS, fs, j, MPath)) =>
           /\ MRes.kind = "file"
           /\ MRes.file = Candidate(i)
    /\ MRes.kind = "file" =>
         \E i \in DOMAIN MS :
           /\ Servable(MS, fs, i, MPath)
           /\ \A j \in 1..(i - 1) : ~Servable(MS, fs, j, MPath)
           /\ MRes.file = Candidate(i)
           /\ MRes.tried[Len(MRes.tried)] = i
    /\ \A a, b \in DOMAIN MRes.tried : a < b => MRes.tried[a] < MRes.tried[b]
    /\ MRes.routeConsulted =>
         \A i \in DOMAIN MS : ~Servable(MS, fs, i, MPath)
    /\ MRes.kind = "route" =>
         /\ MRes.routeConsulted
         /\ MKey \in DOMAIN MR.routes_
         /\ MRes.handler = MR.routes_[MKey]
    /\ MRes.kind = "notfound" =>
         /\ MRes.routeConsulted
         /\ MKey \notin DOMAIN MR.routes_

\* C5 witness: two mounts with the same prefix and different roots both
\* have the file, a route is registered for the same method and path, and
\* match returned the file of the mount registered first.
C5_Witness ==
  /\ lastMatch # NoMatch
  /\ Len(MS) = 2
  /\ MS[1][2] = "pub" /\ MS[2][2] = "alt"
  /\ Servable(MS, fs, 1, MPath) /\ Servable(MS, fs, 2, MPath)
  /\ MKey \in DOMAIN MR.routes_
  /\ MRes.kind = "file"
  /\ MRes.file = "/srv/pub/f"

C7_PrefixItselfServesIndex ==
  (/\ lastMatch # NoMatch
   /\ MS # <<>>
   /\ MPath = MS[1][1]
   /\ LET st == Walk(fs, PathJoin(Absolute(MS[1][2]), "index.html"))
      IN  st.err = "ok" /\ st.path \in DOMAIN fs.files) =>
    /\ MRes.kind = "file"
    /\ MRes.file = PathJoin(Absolute(MS[1][2]), "index.html")

\* C8 as claimed: whenever match consulted the route table, every mount
\* with prefix "/" had its candidate tried before, whatever the path.
C8_RootMountMatchesEveryPath ==
  lastMatch # NoMatch =>
    \A i \in DOMAIN MS :
      (MS[i][1] = "/" /\ MRes.routeConsulted) => i \in Range(MRes.tried)

\* C8 as amended: a mount with prefix "/" matches every path that begins
\* with "/": its candidate was tried before the route table was consulted;
\* it is not tried for a path that does not begin with "/".
C8_RootMountMatchesSlashPaths ==
  lastMatch # NoMatch =>
    \A i \in DOMAIN MS :
      MS[i][1] = "/" =>
        /\ (StartsWith(MPath, "/") /\ MRes.routeConsulted) =>
             i \in Range(MRes.tried)
        /\ ~StartsWith(MPath, "/") => i \notin Range(MRes.tried)

\* C8 witness: a root mount was tried for "/s/f", had no such file, and the
\* route table was consulted after it.
C8_Witness ==
  /\ lastMatch # NoMatch
  /\ MPath = "/s/f"
  /\ \E i \in DOMAIN MS : MS[i][1] = "/" /\ i \in Range(MRes.tried)
  /\ MRes.routeConsulted

\* the normalized prefixes one after the other
RECURSIVE ConcatNormalized(_)
ConcatNormalized(groups) ==
  IF groups = <<>> THEN ""
  ELSE normalize_path_segment(Head(groups)) \o ConcatNormalized(Tail(groups))

\* the prefix active inside these groups, outermost first: each group
\* normalizes the prefix active outside it followed by its own normalized
\* prefix
RECURSIVE FoldPrefix(_, _)
FoldPrefix(groups, outer) ==
  IF groups = <<>> THEN outer
  ELSE FoldPrefix(Tail(groups),
         normalize_path_segment(outer \o normalize_path_segment(Head(groups))))

\* the handler a request with this method and path finds in the route
\* table, 0 when there is none
Lookup(routes, method, path) ==
  LET k == RouteKey(method, normalize_path_segment(path))
  IN  IF k \in DOMAIN routes THEN routes[k] ELSE 0

\* the keys handler h is bound under
BoundKeys(routes, h) == {k \in DOMAIN routes : routes[k] = h}

NoTrailingSlash(p) == CharAt(p, Len(p)) # "/"

\* no normalized prefix and not the normalized path ends with "/", except
\* that the outermost prefix may be "/"
CleanChain(groups, path) ==
  /\ \A i \in DOMAIN groups :
       \/ NoTrailingSlash(normalize_path_segment(groups[i]))
       \/ (i = 1 /\ normalize_path_segment(groups[1]) = "/")
  /\ NoTrailingSlash(normalize_path_segment(path))

\* C9 as claimed: a handler registered inside groups and still bound is
\* found at the concatenation of the groups' normalized prefixes and the
\* normalized path, and not at the path alone.
C9_ReachableAtConcatenation ==
  \A h \in DOMAIN regs :
    LET g      == regs[h]
        routes == router[g.router].routes_
        concat == ConcatNormalized(g.groups) \o normalize_path_segment(g.path)
    IN  (g.groups # <<>> /\ BoundKeys(routes, h) # {}) =>
          /\ Lookup(routes, g.method, concat) = h
          /\ Lookup(routes, g.method, g.path) # h

\* C9 as amended: a handler registered inside groups is bound only under
\* normalize(G + normalize(path)), G being the prefix active in the groups;
\* when no normalized prefix and not the normalized path ends with "/" (the
\* outermost prefix may be "/") that is the concatenation, the handler is
\* found there and not at the path alone.
C9_ReachableAtComposedPrefix ==
  \A h \in DOMAIN regs :
    LET g      == regs[h]
        routes == router[g.router].routes_
        concat == ConcatNormalized(g.groups) \o normalize_path_segment(g.path)
        full   == normalize_path_segment(
                    FoldPrefix(g.groups, "") \o normalize_path_segment(g.path))
    IN  g.groups # <<>> =>
          /\ BoundKeys(routes, h) \subseteq {RouteKey(g.method, full)}
          /\ (CleanChain(g.groups, g.path) /\ BoundKeys(routes, h) # {}) =>
               /\ full = concat
               /\ Lookup(routes, g.method, concat) = h
               /\ Lookup(routes, g.method, g.path) # h

\* C9 witness: Get("/f") inside group("/s") inside group("/s") registered a
\* handler that match returned for "GET /s/s/f".
C9_Witness ==
  /\ lastMatch # NoMatch
  /\ MPath = "/s/s/f"
  /\ MRes.kind = "route"
  /\ MRes.handler \in DOMAIN regs
  /\ regs[MRes.handler].groups = <<"/s", "/s">>
  /\ regs[MRes.handler].path = "/f"

\* C10: the prefix active on a router is at all times the one composed of
\* the groups in progress on it: a group that returns leaves the prefix of
\* the groups around it, the outermost leaves the empty prefix; so a route
\* is bound under the prefixes of the groups in progress when it was
\* registered and of no group that had returned.
C10_GroupRestoresPrefix ==
  /\ \A r \in RouterIds :
       router[r].current_group_prefix_ = FoldPrefix(ActiveGroups(r), "")
  /\ \A h \in DOMAIN regs :
       BoundKeys(router[regs[h].router].routes_, h) \subseteq
         {RouteKey(regs[h].method,
            normalize_path_segment(FoldPrefix(regs[h].groups, "")
              \o normalize_path_segment(regs[h].path)))}

\* C10 witness: two groups were entered, the inner one returned, and the
\* route registered after that, in the outer group alone, is bound under
\* the outer prefix only.
C10_Witness ==
  /\ Len(frames) = 1
  /\ frames[1].prefix = "/s"
  /\ 3 \in DOMAIN regs
  /\ regs[3].groups = <<"/s">>
  /\ regs[3].path = "/f"
  /\ BoundKeys(router["A"].routes_, 3) = {"GET /s/f"}

-----------------------------------------------------------------------------
(* Properties of normalize_path_segment, under SpecNormalize               *)

-----------------------------------------------------------------------------
(* Properties of mount and of the tables, under SpecMount                  *)

\* the method and the path a route key was made of: the method has no
\* space in it, the path is what follows the first space
KeyMethod(k) == SubSeq(k, 1, Find(k, " "))
KeyPath(k) == SubstrFrom(k, Find(k, " ") + 1)

\* the mount calls made so far
MountRecords == {n \in DOMAIN regs : regs[n].method = "MOUNT"}

\* the Get and Post calls made on router b after the last mount of b into
\* router a
LateRoutes(a, b) ==
  {h \in DOMAIN regs :
     /\ regs[h].router = b
     /\ regs[h].method \in {"GET", "POST"}
     /\ \E n \in MountRecords :
          regs[n].router = a /\ regs[n].other = b /\ n < h
     /\ \A n \in MountRecords :
          (regs[n].router = a /\ regs[n].other = b) => n < h}

\* a handler registered on b after the last mount of b into a is not in
\* a's route table and is not returned by a match on a
C11_LateRoutesUnreachable ==
  \A a, b \in RouterIds :
    /\ \A h \in LateRoutes(a, b) : h \notin Range(router[a].routes_)
    /\ (lastMatch # NoMatch /\ lastMatch.router = a) =>
         lastMatch.res.handler \notin LateRoutes(a, b)

\* once b is mounted into a, a step that changes b (a Get, Post or
\* serveStatic call on b) leaves a's route table and list of static mounts
\* as they are
C11_Step ==
  \A n \in MountRecords :
    LET a == regs[n].router
        b == regs[n].other
    IN  router'[b] # router[b] =>
          /\ router'[a].routes_ = router[a].routes_
          /\ router'[a].static_paths_ = router[a].static_paths_

\* C11: mount copies at the time of the call: after A.mount(prefix, B), no
\* call on B changes A's route table or A's list of static mounts, and a
\* route added to B afterwards is not reachable through A.
C11_MountCopiesAtCallTime ==
  [](C11_LateRoutesUnreachable) /\ [][C11_Step]_vars

\* C11 witness: B was mounted into A under "/s", then Get("/g") was called
\* on B; a match of "GET /s/g" on A found no route.
C11_Witness ==
  /\ 2 \in MountRecords
  /\ regs[2].path = "/s"
  /\ 3 \in DOMAIN regs
  /\ regs[3].router = "B" /\ regs[3].method = "GET" /\ regs[3].path = "/g"
  /\ router["B"].routes_["GET /g"] = 3
  /\ lastMatch # NoMatch
  /\ lastMatch.path = "/s/g" /\ lastMatch.method = "GET"
  /\ lastMatch.res.kind = "notfound"

\* C12: A.mount(prefix, B) binds, for every route of B with its method and
\* path, the key of the method and normalize(normalize(prefix) +
\* normalize(path)) to the same handler in A, and appends B's static
\* mounts, in B's order and with the prefix composed the same way, after
\* the static mounts A had.
C12_MountCopiesEveryBinding ==
  \A n \in MountRecords :
    LET g  == regs[n]
        mp == normalize_path_segment(g.path)
        to(p) == normalize_path_segment(mp \o normalize_path_segment(p))
    IN  /\ \A o \in DOMAIN g.source.routes_ :
             LET k == RouteKey(KeyMethod(o), to(KeyPath(o)))
             IN  /\ k \in DOMAIN g.after.routes_
                 /\ g.after.routes_[k] = g.source.routes_[o]
        /\ g.after.static_paths_ =
             g.before.static_paths_ \o
               [i \in DOMAIN g.source.static_paths_ |->
                  <<to(g.source.static_paths_[i][1]),
                    g.source.static_paths_[i][2]>>]

\* a path is normalized: it starts with "/" and does not end with "/"
\* unless it is "/"
IsNormalized(p) ==
  /\ StartsWith(p, "/")
  /\ (p = "/" \/ CharAt(p, Len(p)) # "/")

\* C13: the path in every route key and the prefix of every static mount
\* stored in a router is normalized.
C13_StoredPathsNormalized ==
  \A r \in RouterIds :
    /\ \A k \in DOMAIN router[r].routes_ : IsNormalized(KeyPath(k))
    /\ \A i \in DOMAIN router[r].static_paths_ :
         IsNormalized(router[r].static_paths_[i][1])

\* C15: a Get or Post call binds its key to the handler given, whether the
\* key was bound or not, and leaves every other binding; a mount call
\* binds every key it copies to a handler of the router mounted, whether
\* the key was bound or not, and leaves every other binding: a key has one
\* handler, the one written last.
C15_Step ==
  (nOps' = nOps + 1 /\ (nOps + 1) \in DOMAIN regs') =>
    LET g   == regs'[nOps + 1]
        old == router[g.router].routes_
        new == router'[g.router].routes_
    IN  /\ g.method \in {"GET", "POST"} =>
             LET key == RouteKey(g.method,
                          normalize_path_segment(
                            router[g.router].current_group_prefix_ \o
                            normalize_path_segment(g.path)))
             IN  new = [k \in DOMAIN old \cup {key} |->
                          IF k = key THEN nOps + 1 ELSE old[k]]
        /\ g.method = "MOUNT" =>
             LET src == router[g.other].routes_
                 mp  == normalize_path_segment(g.path)
                 copied == {mount_key(mp, o) : o \in DOMAIN src}
             IN  /\ DOMAIN new = DOMAIN old \cup copied
                 /\ \A k \in copied :
                      new[k] \in {src[o] : o \in {x \in DOMAIN src :
                                                    mount_key(mp, x) = k}}
                 /\ \A k \in DOMAIN old \ copied : new[k] = old[k]

C15_LastRegistrationWins == [][C15_Step]_vars

\* C15 witness: Get("/s/f") was called twice on A; the key is bound to the
\* handler of the second call.
C15_Witness ==
  /\ {1, 2} \subseteq DOMAIN regs
  /\ \A h \in {1, 2} :
       regs[h].router = "A" /\ regs[h].method = "GET" /\ regs[h].path = "/s/f"
  /\ DOMAIN router["A"].routes_ = {"GET /s/f"}
  /\ router["A"].routes_["GET /s/f"] = 2

-----------------------------------------------------------------------------
(* Properties of the route lookup, under SpecRouter                        *)

\* every static mount passes the matched request over
AllPassedOver == \A i \in DOMAIN MS : PassedOver(MS, fs, i, MPath)

\* the request keeps the method and path as matched
MatchedRequest ==
  [method |-> lastMatch.method, path |-> MPath, headers |-> <<>>]

\* C16 as claimed: a request for which match returned no static file and
\* whose method and normalized path are not in the route table gets the
\* fallback handler.
C16_UnroutedIs404 ==
  lastMatch # NoMatch =>
    ((MRes.kind # "file" /\ MKey \notin DOMAIN MR.routes_) =>
       MRes.kind = "notfound")

\* C16 as amended: a request that every static mount passes over (none has
\* a file, none answers 400 for a candidate outside its root, none faults)
\* and whose method and normalized path are not in the route table gets
\* the fallback handler, which sets status 404 and the text/plain body
\* "Not found: " followed by the path as received.
C16_FallbackIs404 ==
  lastMatch # NoMatch =>
    ((MKey \notin DOMAIN MR.routes_ /\ AllPassedOver) =>
       /\ MRes.kind = "notfound"
       /\ \A h \in InvokeHandler(MRes, MatchedRequest, NewResponse, fs) :
            /\ h.outcome = "return"
            /\ h.left.status_code = 404
            /\ Find(h.left.body, MPath) # -1
            /\ h.left.body = "Not found: " \o MPath
            /\ h.left.headers["Content-Type"] = "text/plain")

\* C16 witness: with a route and a static mount registered, "GET /s/g" was
\* tried at a mount, found in no table and answered by the fallback.
C16_Witness ==
  /\ lastMatch # NoMatch
  /\ MPath = "/s/g"
  /\ MRes.tried # <<>>
  /\ MR.routes_ # <<>>
  /\ MRes.kind = "notfound"

\* C17 as claimed: for a route registered under method m and path p other
\* than "/", a request with method m and path p + "/" for which match
\* returned no static file is matched to the handler of that route.
C17_TrailingSlashSameRoute ==
  lastMatch # NoMatch =>
    \A k \in DOMAIN MR.routes_ :
      (/\ KeyMethod(k) = lastMatch.method
       /\ KeyPath(k) # "/"
       /\ MPath = KeyPath(k) \o "/"
       /\ MRes.kind # "file") =>
        (MRes.kind = "route" /\ MRes.handler = MR.routes_[k])

\* C17 as amended: for a route registered under method m and path p other
\* than "/", a request with method m and path p + "/" that every static
\* mount passes over is matched to the handler of that route.
C17_TrailingSlashRouteWhenPassed ==
  lastMatch # NoMatch =>
    \A k \in DOMAIN MR.routes_ :
      (/\ KeyMethod(k) = lastMatch.method
       /\ KeyPath(k) # "/"
       /\ MPath = KeyPath(k) \o "/"
       /\ AllPassedOver) =>
        (MRes.kind = "route" /\ MRes.handler = MR.routes_[k])

\* C17 witness: "GET /f/" was tried at a static mount and then matched to
\* the handler registered for "GET /f".
C17_Witness ==
  /\ lastMatch # NoMatch
  /\ lastMatch.method = "GET" /\ MPath = "/f/"
  /\ MRes.tried # <<>>
  /\ "GET /f" \in DOMAIN MR.routes_
  /\ MRes.kind = "route"
  /\ MRes.handler = MR.routes_["GET /f"]

\* the normalized path of the matched request is registered, under other
\* methods only
OtherMethodOnly ==
  /\ MKey \notin DOMAIN MR.routes_
  /\ \E k \in DOMAIN MR.routes_ :
       KeyPath(k) = normalize_path_segment(MPath)

\* C18 as claimed: a request whose normalized path is registered under
\* another method only, and for which match returned no static file, gets
\* the fallback handler.
C18_OtherMethodIs404 ==
  lastMatch # NoMatch =>
    ((OtherMethodOnly /\ MRes.kind # "file") => MRes.kind = "notfound")

\* C18 as amended: a request whose normalized path is registered under
\* another method only, and which every static mount passes over, gets the
\* fallback handler (status 404), never a handler registered under the
\* other method; the method is compared as a string, letter case included.
C18_OtherMethodIs404WhenPassed ==
  lastMatch # NoMatch =>
    /\ (OtherMethodOnly /\ AllPassedOver) =>
         /\ MRes.kind = "notfound"
         /\ \A h \in InvokeHandler(MRes, MatchedRequest, NewResponse, fs) :
              h.left.status_code = 404
    /\ MRes.kind = "route" =>
         /\ KeyMethod(MKey) = lastMatch.method
         /\ MRes.handler \in DOMAIN regs
         /\ regs[MRes.handler].method = lastMatch.method

\* C18 witness: the path "/f" is registered with Get only; a request with
\* method "get" for it was answered by the fallback.
C18_Witness ==
  /\ lastMatch # NoMatch
  /\ lastMatch.method = "get" /\ MPath = "/f"
  /\ "GET /f" \in DOMAIN MR.routes_
  /\ MRes.kind = "notfound"

-----------------------------------------------------------------------------
(* Properties of Response::JSON and Response::sendFile, under SpecConn     *)

\* C19 as claimed: no exception leaves a call of Response::JSON, and when
\* the codec faults the Response is left with status 500, the body
\* "Internal Server Error" and Content-Type text/plain.
C19_JSONNeverRaises ==
  \A c \in ConnIds :
    LET h == conn[c].handled
    IN  h.api.fn = "JSON" =>
          /\ ~h.api.raised
          /\ h.api.fault # "ok" =>
               /\ h.left.status_code = 500
               /\ h.left.body = "Internal Server Error"
               /\ h.left.headers["Content-Type"] = "text/plain"

\* C20 as claimed: no exception leaves the file-serving handler's call of
\* sendFile; when the file cannot be opened the Response is 404 with a
\* text/plain body and sendFile returns false, when it opens and cannot be
\* read the Response is 500 with a text/plain body and sendFile returns
\* false, otherwise the Response is 200 with the file's bytes and the MIME
\* type of its extension and sendFile returns true; in each case this
\* Response is the one written, and a completed write is followed by
\* shutdown and close.
C20_SendFileNeverRaises ==
  \A c \in ConnIds :
    LET C == conn[c]
        h == C.handled
    IN  h.kind = "file" =>
          /\ h.api.fn = "sendFile"
          /\ ~h.api.raised
          /\ h.outcome = "return"
          /\ h.api.fault = "open_failed" =>
               /\ ~h.api.returned
               /\ h.left.status_code = 404
               /\ h.left.headers["Content-Type"] = "text/plain"
               /\ h.left.body = "File not found: " \o h.api.arg
          /\ h.api.fault \in {"size_failed", "read_failed"} =>
               /\ ~h.api.returned
               /\ h.left.status_code = 500
               /\ h.left.headers["Content-Type"] = "text/plain"
               /\ h.left.body = "Internal Server Error"
          /\ h.api.fault = "ok" =>
               /\ h.api.returned
               /\ h.left.status_code = 200
               /\ h.left.headers["Content-Type"] = guess_mime_type(h.api.arg)
               /\ h.left.body = fs.files[Walk(fs, h.api.arg).path]
          /\ C.response_ = h.left
          /\ ResponseIssued(c)
          /\ WireBody(C.wire) = h.left.body
          /\ C.state \in {"writing", "closed", "abandoned"}
          /\ (C.state = "closed" =>
                C.log = <<"match", "handler", "write", "shutdown", "close">>)
          /\ server = "running"

-----------------------------------------------------------------------------
(* Properties of the connection and of the server, continued               *)

\* the static mounts of the served router
ServedStatics == router["A"].static_paths_

\* C21 as claimed: when a static mount matches the path of a dispatched
\* request and its candidate cannot be canonicalized or is no existing
\* regular file, nothing leaves match and the mount answers neither 400 nor
\* 500: match goes on to the later mounts, the route table and the 404
\* fallback.
C21_MissingCandidateIsNoError ==
  \A c \in ConnIds :
    LET C   == conn[c]
        key == RouteKey(C.request_.method,
                        normalize_path_segment(C.request_.path))
    IN  (/\ "match" \in Range(C.log)
         /\ \A i \in DOMAIN ServedStatics :
              ~Servable(ServedStatics, fs, i, C.request_.path)
         /\ \E i \in DOMAIN ServedStatics :
              prefix_matches(ServedStatics[i][1], C.request_.path)) =>
          /\ C.state # "escaped"
          /\ server = "running"
          /\ C.handled.kind \in {"route", "notfound"}
          /\ C.handled.kind = "route" <=> key \in DOMAIN router["A"].routes_

\* the buffer of connection c as it is, or as it will be, lacks "\r\n\r\n"
HeadersPending(C) == Find(C.request_buffer_, "\r\n\r\n") = -1

\* nothing was parsed, matched, handled or written on the connection
Untouched(C) ==
  /\ C.request_ = NoRequest
  /\ C.response_ = NewResponse
  /\ C.handled = NotHandled
  /\ C.log = <<>>
  /\ C.wire = ""
  /\ C.state \notin {"writing", "closed", "escaped"}

C22_NothingBeforeTerminator ==
  \A c \in ConnIds :
    (conn[c].state # "none" /\ HeadersPending(conn[c])) =>
      /\ Untouched(conn[c])
      /\ conn[c].state = "reading" => conn[c].reads = 1

C22_Step ==
  \A c \in ConnIds :
    (/\ conn[c].state = "reading"
     /\ conn'[c].request_buffer_ # conn[c].request_buffer_
     /\ HeadersPending(conn'[c])) =>
      /\ \E n \in 1..Len(conn[c].pending) :
           /\ n <= BufferSize
           /\ conn'[c].request_buffer_ =
                conn[c].request_buffer_ \o SubSeq(conn[c].pending, 1, n)
           /\ conn'[c].pending = SubstrFrom(conn[c].pending, n)
      /\ conn'[c].state = "reading"
      /\ conn'[c].reads = 1
      /\ Untouched(conn'[c])

\* C22: while the buffer of a connection lacks "\r\n\r\n" nothing is
\* parsed, match is not called, no handler is invoked and nothing is
\* written; a read completion without error that leaves the buffer without
\* "\r\n\r\n" appends the bytes it delivered and leaves exactly one read
\* pending, however many reads came before and however long the buffer is.
C22_ReadsUntilTerminator ==
  [](C22_NothingBeforeTerminator) /\ [][C22_Step]_vars

\* C22 witness: all 31 bytes of a request without the blank line have
\* arrived in reads of which the last delivered one byte; a read is pending
\* and nothing else has happened.
C22_Witness ==
  \E c \in ConnIds :
    /\ conn[c].request_buffer_ = "GET /status HTTP/1.1\r\nHost: x\r\n"
    /\ conn[c].pending = ""
    /\ conn[c].state = "reading"
    /\ conn[c].reads = 1
    /\ Untouched(conn[c])

\* the states of the connection lifecycle, in order: 0 no connection,
\* 1 awaiting the headers, 3 dispatching (match called; the parsed state 2
\* is passed inside the same callback), 4 writing the response, 5 closed
Phase(C) ==
  IF C.state = "none" THEN 0
  ELSE IF "close" \in Range(C.log) THEN 5
  ELSE IF "write" \in Range(C.log) THEN 4
  ELSE IF "match" \in Range(C.log) THEN 3
  ELSE 1

\* what a connection has done when it is in its state
C23_Order ==
  \A c \in ConnIds :
    LET C == conn[c]
    IN  /\ C.log \in {<<>>, <<"match">>, <<"write">>,
                      <<"write", "shutdown", "close">>,
                      <<"match", "handler", "write">>,
                      <<"match", "handler", "write", "shutdown", "close">>}
        /\ C.state \in {"none", "reading"} => C.log = <<>>
        /\ C.state = "escaped" => C.log = <<"match">>
        /\ C.log = <<"match">> => C.state = "escaped"
        /\ C.state = "writing" =>
             C.log \in {<<"write">>, <<"match", "handler", "write">>}
        /\ C.state = "closed" <=> "close" \in Range(C.log)
        /\ "handler" \in Range(C.log) <=> C.handled # NotHandled
        /\ C.handled # NotHandled =>
             C.handled.outcome \in HandlerOutcomes
        /\ (C.log # <<>> /\ C.log[1] = "write") =>
             (C.request_.method = "" \/ C.request_.path = "")

\* a step moves no connection backwards
C23_Step ==
  \A c \in ConnIds :
    /\ Phase(conn'[c]) >= Phase(conn[c])
    /\ Len(conn'[c].log) >= Len(conn[c].log)
    /\ SubSeq(conn'[c].log, 1, Len(conn[c].log)) = conn[c].log
    /\ conn[c].state \in {"closed", "abandoned", "escaped"} =>
         conn'[c] = conn[c]
    /\ conn[c].state = "writing" =>
         conn'[c].state \in {"writing", "closed", "abandoned"}
    /\ (conn'[c].state = "closed" /\ conn[c].state # "closed") =>
         /\ conn[c].state = "writing"
         /\ conn'[c].log = conn[c].log \o <<"shutdown", "close">>
    /\ (conn'[c].state = "writing" /\ conn[c].state # "writing") =>
         conn[c].state = "reading"

\* C23: a connection moves forward only, from awaiting the headers through
\* dispatching and writing to closed, or from awaiting the headers to
\* writing for a malformed request line: what it has done is a prefix of
\* match, handler, write, shutdown, close (or of write, shutdown, close),
\* so match comes before the handler and the write after the handler has
\* returned or thrown; shutdown and close are done in the step that
\* completes the write, and a connection that was left is never entered
\* again.
C23_ForwardOnly == [](C23_Order) /\ [][C23_Step]_vars

\* C23 witness: a connection whose handler threw has gone through match,
\* handler, write, shutdown and close.
C23_Witness ==
  \E c \in ConnIds :
    /\ conn[c].handled.outcome = "std_exception"
    /\ conn[c].log = <<"match", "handler", "write", "shutdown", "close">>
    /\ conn[c].state = "closed"
    /\ Phase(conn[c]) = 5

\* the buffer up to and with its first "\r\n\r\n"
HeaderBlock(request_buffer_) ==
  SubSeq(request_buffer_, 1, Find(request_buffer_, "\r\n\r\n") + 4)

\* match, the handler and the write happen at most once, and the Request
\* is what the header block alone parses to
C24_Once ==
  \A c \in ConnIds :
    LET C == conn[c]
        P == ParseRequest(HeaderBlock(C.request_buffer_))
    IN  /\ Count(C.log, "match") <= 1
        /\ Count(C.log, "handler") <= 1
        /\ Count(C.log, "write") <= 1
        /\ C.log # <<>> =>
             /\ ~HeadersPending(C)
             /\ C.request_ = [method |-> P.method, path |-> P.path,
                              headers |-> P.headers]
             /\ C.reads = 0
        /\ ResponseIssued(c) =>
             \E order \in IterationOrders(DOMAIN C.response_.headers) :
               C.wire = to_string(C.response_, order)

\* once the headers are complete nothing more is read or parsed, and what
\* was written stays what it is
C24_Step ==
  \A c \in ConnIds :
    conn[c].log # <<>> =>
      /\ conn'[c].request_buffer_ = conn[c].request_buffer_
      /\ conn'[c].pending = conn[c].pending
      /\ conn'[c].request_ = conn[c].request_
      /\ conn'[c].handled = conn[c].handled
      /\ conn'[c].response_ = conn[c].response_
      /\ conn'[c].wire = conn[c].wire
      /\ conn'[c].reads = 0

\* C24: on a connection match is called at most once, a handler invoked at
\* most once and one write issued at most; the Request is what the bytes up
\* to the header terminator parse to, whatever follows them in the buffer,
\* and once the headers are complete no byte is read, the Request, the
\* handler's result and the bytes written never change.
C24_AtMostOnce == [](C24_Once) /\ [][C24_Step]_vars

\* C24 witness: a request and a second one behind it arrived in one read;
\* the first was answered and the connection closed with the second never
\* parsed: its Host header is not among the headers.
C24_Witness ==
  \E c \in ConnIds :
    /\ conn[c].state = "closed"
    /\ conn[c].pending = ""
    /\ Find(conn[c].request_buffer_, "GET /hello") # -1
    /\ conn[c].request_.path = "/status"
    /\ DOMAIN conn[c].request_.headers = {"Connection"}
    /\ Count(conn[c].log, "write") = 1

\* a connection given up after an error has no operation pending, and has
\* written nothing when it was given up while reading
C25_GivenUp ==
  \A c \in ConnIds :
    LET C == conn[c]
    IN  C.state = "abandoned" =>
          /\ C.reads = 0
          /\ C.log \in {<<>>, <<"write">>, <<"match", "handler", "write">>}
          /\ C.log = <<>> =>
               /\ C.wire = ""
               /\ C.handled = NotHandled
               /\ C.response_ = NewResponse
               /\ C.request_ = NoRequest

\* a read completion that delivers no byte and a write completion that
\* does not close the connection are completions with an error: the
\* connection is given up as it is and never changes again
C25_Step ==
  \A c \in ConnIds :
    /\ (/\ conn[c].state = "reading"
        /\ conn'[c] # conn[c]
        /\ conn'[c].request_buffer_ = conn[c].request_buffer_) =>
         conn'[c] = [conn[c] EXCEPT !.state = "abandoned", !.reads = 0]
    /\ (/\ conn[c].state = "writing"
        /\ conn'[c] # conn[c]
        /\ conn'[c].state # "closed") =>
         conn'[c] = [conn[c] EXCEPT !.state = "abandoned"]
    /\ conn[c].state = "abandoned" => conn'[c] = conn[c]

\* C25: after a read completion with an error the connection issues no
\* read, calls no handler and writes nothing; after a write completion with
\* an error it issues no write and no read and attempts no other response.
C25_ErrorsEndTheConnection == [](C25_GivenUp) /\ [][C25_Step]_vars

\* C25 witness: after part of a request had arrived a read completed with
\* an error; the connection is given up with nothing parsed or written.
C25_Witness ==
  \E c \in ConnIds :
    /\ conn[c].state = "abandoned"
    /\ conn[c].request_buffer_ = "GET /status"
    /\ conn[c].log = <<>>
    /\ conn[c].wire = ""
    /\ conn[c].reads = 0

\* the lines of s from position pos up to the blank line, those without a
\* colon left out, and the rest of s
RECURSIVE KeepColonLines(_, _)
KeepColonLines(s, pos) ==
  LET g == Getline(s, pos)
  IN  IF ~g.ok THEN ""
      ELSE IF g.line = "\r" THEN SubstrFrom(s, pos)
      ELSE (IF Find(g.line, ":") # -1 THEN SubSeq(s, pos + 1, g.pos) ELSE "")
             \o KeepColonLines(s, g.pos)

\* the request with the header lines that have no colon taken out
DropColonless(s) ==
  LET first == Getline(s, 0)
  IN  SubSeq(s, 1, first.pos) \o KeepColonLines(s, first.pos)

\* C26: a request whose request line has a method and a path and whose
\* header block has a line without a colon is dispatched (match is called,
\* the 400 of a malformed request is not sent), with the headers and the
\* handler it would have without that line.
C26_ColonlessLineIsSkipped ==
  \A c \in ConnIds :
    LET C     == conn[c]
        block == HeaderBlock(C.request_buffer_)
        clean == ParseRequest(DropColonless(block))
    IN  (/\ C.log # <<>>
         /\ C.request_.method # "" /\ C.request_.path # ""
         /\ DropColonless(block) # block) =>
          /\ C.log[1] = "match"
          /\ ~clean.malformed
          /\ C.request_ = [method |-> clean.method, path |-> clean.path,
                           headers |-> clean.headers]
          /\ C.state # "escaped" =>
               /\ C.handled \in
                    InvokeHandler(
                      Match(router["A"].routes_, router["A"].static_paths_,
                            fs, clean.method, clean.path),
                      C.request_, NewResponse, fs)
               /\ C.response_ = AfterHandler(C.handled)

\* C26 witness: "POST /status" with the header lines "bad line" and
\* "A:  b" was dispatched with the one header A and answered by the 404
\* fallback; the connection is closed.
C26_Witness ==
  \E c \in ConnIds :
    /\ Find(conn[c].request_buffer_, "bad line\r\n") # -1
    /\ conn[c].request_.method = "POST"
    /\ DOMAIN conn[c].request_.headers = {"A"}
    /\ conn[c].request_.headers["A"] = "b"
    /\ conn[c].handled.kind = "notfound"
    /\ conn[c].response_.status_code = 404
    /\ conn[c].state = "closed"

-----------------------------------------------------------------------------
(* Properties of the reactor, under SpecReactor                            *)

\* the connection whose callback runs is the one that is dispatching
C27_OneCallback ==
  \A c \in ConnIds :
    conn[c].state = "dispatching" <=>
      (call # NoCall /\ call.fn = "read_request" /\ call.arg = c)

\* while the callback of a connection runs, a step is a step of that
\* callback: no other connection and not the acceptor changes
C27_Step ==
  \A c \in ConnIds :
    (call # NoCall /\ call.arg = c) =>
      /\ \A d \in ConnIds \ {c} : conn'[d] = conn[d]
      /\ acceptor' = acceptor
      /\ call' # NoCall => call'.arg = c
      /\ conn'[c].state \in {"dispatching", "writing", "escaped"}

\* C27: from the read completion that finds the header terminator of a
\* connection to the issuing of its write, parsing, match and the handler
\* run in one callback of the reactor: no completion of another connection
\* and no accept completion is processed in between, so as long as the
\* handler has not returned no other connection moves.
C27_DispatchIsOneReactorStep == [](C27_OneCallback) /\ [][C27_Step]_vars

\* C27 witness: the handler of connection c1 is running (match has
\* returned, the handler has not) while the bytes of a request on
\* connection c2 wait to be read.
C27_Witness ==
  /\ InCallback("c1", "matched")
  /\ conn["c1"].log = <<"match">>
  /\ conn["c2"].state = "reading"
  /\ conn["c2"].pending = "GET /hello\r\n\r\n"

\* once run() is called one accept is pending
C28_OnePending ==
  /\ server = "idle" => acceptor = NoAccept
  /\ server # "idle" => acceptor.pending = 1

\* the connections a step makes
Created == {c \in ConnIds : conn[c].state = "none" /\ conn'[c].state # "none"}

\* a step that completes an accept arms the next one; it makes one
\* connection and starts it when the accept succeeded, none when it failed
C28_Step ==
  /\ Cardinality(Created) <= 1
  /\ Created # {} =>
       /\ acceptor.pending = 1 /\ acceptor'.pending = 1
       /\ acceptor'.last = "ok"
       /\ \A c \in Created :
            /\ conn'[c].state = "reading"
            /\ conn'[c].reads = 1
            /\ conn'[c].request_buffer_ = ""
            /\ Untouched(conn'[c])
       /\ \A c \in ConnIds \ Created : conn'[c] = conn[c]
  /\ (server = "running" /\ acceptor'.last # acceptor.last) =>
       /\ acceptor'.pending = 1
       /\ server' = "running"
       /\ acceptor'.last = "failed" => conn' = conn
       /\ acceptor'.last = "ok" => Created # {}
  /\ (server = "idle" /\ server' # "idle") =>
       (acceptor'.pending = 1 /\ conn' = conn)

\* C28: run() arms the first accept; every accept completion, with or
\* without an error, arms exactly one accept again, so one accept is
\* pending whenever the server has been run; a failed accept makes no
\* connection and leaves the server running, a successful one makes one
\* Connection and issues its first read.
C28_AcceptLoop == [](C28_OnePending) /\ [][C28_Step]_vars

\* C28 witness: after a connection was accepted and closed an accept
\* failed; one accept is pending, the server runs and the second
\* connection can still be accepted.
C28_Witness ==
  /\ server = "running"
  /\ acceptor = [pending |-> 1, last |-> "failed"]
  /\ conn["c1"].state = "closed"
  /\ conn["c2"].state = "none"

\* the Request a connection holds is the one its own buffer parses to
OwnRequest(C) ==
  LET req == ParseRequest(C.request_buffer_)
  IN  [method |-> req.method, path |-> req.path, headers |-> req.headers]

\* the connection record C holds what the bytes of its own socket, the
\* router main built and the file store give, and nothing else
OwnBytesOnly(C) ==
  /\ C.request_buffer_ \o C.pending \in ReactorStreams
  /\ HeadersPending(C) => Untouched(C)
  /\ C.request_ # NoRequest => C.request_ = OwnRequest(C)
  /\ C.handled # NotHandled =>
       /\ C.request_ = OwnRequest(C)
       /\ C.handled \in
            InvokeHandler(Match(MainRouter.routes_, MainRouter.static_paths_,
                                ServerFileStore, C.request_.method,
                                C.request_.path),
                          C.request_, NewResponse, ServerFileStore)
       /\ C.response_ = AfterHandler(C.handled)
  /\ C.handled = NotHandled =>
       C.response_ = IF C.wire # "" THEN BadRequest(NewResponse)
                     ELSE NewResponse
  /\ (C.handled = NotHandled /\ C.wire # "") =>
       ParseRequest(C.request_buffer_).malformed
  /\ C.wire # "" =>
       \E order \in IterationOrders(DOMAIN C.response_.headers) :
         C.wire = to_string(C.response_, order)

C29_Own ==
  /\ router["A"] = MainRouter
  /\ fs = ServerFileStore
  /\ \A c \in ConnIds : conn[c].state # "none" => OwnBytesOnly(conn[c])

\* a step changes one connection at most
C29_Step ==
  \A c \in ConnIds, d \in ConnIds :
    (c # d /\ conn'[c] # conn[c]) => conn'[d] = conn[d]

\* C29: in every interleaving of the completions of two open connections
\* the buffer, the Request, the Response and the bytes written of a
\* connection are those its own bytes give with the router tables and the
\* file store, which do not change: no step changes two connections, and
\* what a connection writes is what it writes when it is served alone.
C29_ConnectionsAreIsolated == [](C29_Own) /\ [][C29_Step]_vars

\* C29 witness: two connections are open at once with different requests;
\* one was answered by the handler of GET /hello, the other with the 400 of
\* a malformed request line, and both writes are pending.
C29_Witness ==
  /\ conn["c1"].state = "writing"
  /\ conn["c1"].request_buffer_ = "GET /hello\r\n\r\n"
  /\ conn["c1"].handled.kind = "route"
  /\ conn["c1"].response_.status_code = 200
  /\ conn["c2"].state = "writing"
  /\ conn["c2"].request_buffer_ = "GET\r\n\r\n"
  /\ conn["c2"].response_.status_code = 400

\* C30: match returns a handler whatever the file store does: a fault of
\* the existence test or of the regular-file test counts as "file not
\* found", and no exception leaves match into the completion callback of
\* the connection or into the reactor loop.
C30_MatchAlwaysReturns ==
  /\ lastMatch.res # <<>> => lastMatch.res.kind # "throw"
  /\ server # "stopped"

-----------------------------------------------------------------------------
(* Properties of registration and of static mounts, under SpecGroup        *)

\* C31: when match returns the handler that sends a file of a static
\* mount, the canonical path of the file is the canonical root of the mount
\* followed by a separator and further components: a file of a directory
\* beside the root whose name begins with the root's name is not served.
C31_ServedFileIsInsideRoot ==
  (lastMatch # NoMatch /\ MRes.kind = "file") =>
    LET i    == MRes.tried[Len(MRes.tried)]
        root == Walk(fs, Absolute(MS[i][2]))
        cand == Walk(fs, Candidate(i))
    IN  /\ root.err = "ok"
        /\ cand.err = "ok"
        /\ StartsWith(cand.path, root.path \o "/")

\* C32: a route is reached at the path it was registered with: when only
\* Get and Post were called, outside any group and with no static mount, a
\* GET request whose path is the very string given to Get is matched to the
\* handler registered last for it.
C32_RouteReachedAtItsPath ==
  (/\ lastMatch # NoMatch /\ lastMatch.method = "GET"
   /\ nOps = Cardinality(DOMAIN regs)
   /\ \A n \in DOMAIN regs : regs[n].method \in {"GET", "POST"}
   /\ MS = <<>>) =>
    \A n \in DOMAIN regs :
      (/\ regs[n].router = lastMatch.router
       /\ regs[n].method = "GET"
       /\ regs[n].path = MPath
       /\ regs[n].groups = <<>>
       /\ \A k \in DOMAIN regs :
            (k > n /\ regs[k].method = "GET") => regs[k].path # MPath) =>
        (MRes.kind = "route" /\ MRes.handler = n)

\* C33: under the root prefix paths stay as they are: a route registered
\* with Get(p) inside group("/"), and a route p of a router mounted with
\* mount("/"), is matched by a GET request for p.
C33_RootPrefixIsIdentity ==
  (lastMatch # NoMatch /\ lastMatch.method = "GET" /\ MS = <<>>) =>
    \A n \in DOMAIN regs :
      /\ (/\ regs[n].router = lastMatch.router
          /\ regs[n].method = "GET"
          /\ regs[n].groups = <<"/">>
          /\ regs[n].path = MPath) => MRes.kind = "route"
      /\ (/\ regs[n].router = lastMatch.router
          /\ regs[n].method = "MOUNT"
          /\ regs[n].path = "/"
          /\ RouteKey("GET", MPath) \in DOMAIN regs[n].source.routes_) =>
           MRes.kind = "route"

\* the group prefix of router r while these group calls are in progress
RECURSIVE PrefixOf(_, _)
PrefixOf(r, groups) ==
  IF groups = <<>> THEN ""
  ELSE group_prefix(
         [current_group_prefix_ |->
            PrefixOf(r, SubSeq(groups, 1, Len(groups) - 1))],
         groups[Len(groups)])

\* C34: when the config_func of a group call raises, the group prefix of
\* the router is restored as when it returns: the prefix is that of the
\* group calls still in progress, and the empty one when none is.
C34_PrefixRestoredWhenRaised ==
  \A r \in RouterIds :
    router[r].current_group_prefix_ = PrefixOf(r, ActiveGroups(r))

\* C35: what is registered inside the config_func of a group is bound under
\* the prefix of the group: the static mounts serveStatic and mount add,
\* and the route keys Get, Post and mount write, begin with the group
\* prefix of the router.
C35_Step ==
  \A r \in RouterIds :
    (ActiveGroups(r) # <<>> /\ frames' = frames) =>
      LET prefix == router[r].current_group_prefix_
          was    == router[r]
          now    == router'[r]
      IN  /\ \A i \in (Len(was.static_paths_) + 1)..Len(now.static_paths_) :
               StartsWith(now.static_paths_[i][1], prefix)
          /\ \A k \in DOMAIN now.routes_ :
               (k \notin DOMAIN was.routes_ \/ now.routes_[k] # was.routes_[k])
                 => \E m \in {"GET", "POST"} :
                      StartsWith(k, RouteKey(m, prefix))

C35_AllRegistrationsUnderGroupPrefix == [][C35_Step]_vars

\* C38: a request whose static candidate lies outside the root of the
\* mount does not tell whether the target exists: with the file store as it
\* is and with the file store without the target, the request is answered
\* with the same status and body.
C38_OutsideTargetNotRevealed ==
  lastMatch # NoMatch =>
    \A i \in DOMAIN MS :
      LET root == Walk(fs, Absolute(MS[i][2]))
          cand == Walk(fs, Candidate(i))
          \* the file store without the target
          gone == [fs EXCEPT !.files =
                     [p \in DOMAIN @ \ {cand.path} |-> @[p]]]
          \* the status and the body of the responses a match result
          \* leads to
          ResponsesOf(m, F) ==
            IF m.kind = "throw" THEN {}
            ELSE {[status_code |-> AfterHandler(h).status_code,
                   body |-> AfterHandler(h).body] :
                  h \in InvokeHandler(m, [method |-> lastMatch.method,
                                          path |-> MPath, headers |-> <<>>],
                                      NewResponse, F)}
      IN  (/\ prefix_matches(MS[i][1], MPath)
           /\ i \in Range(MRes.tried)
           /\ root.err = "ok" /\ cand.err = "ok"
           /\ cand.path \in DOMAIN fs.files
           /\ ~StartsWith(cand.path, root.path \o "/")) =>
            ResponsesOf(MRes, fs) =
              ResponsesOf(Match(MR.routes_, MS, gone, lastMatch.method,
                                MPath), gone)

-----------------------------------------------------------------------------
(* Properties of the connection, continued, under SpecConn                 *)

\* what a connection that received the bytes of stream up to and beyond
\* its first "\r\n\r\n" holds, whatever reads delivered them: the Request,
\* the handler invoked, the Response and the bytes written
Outcomes(stream, routes, statics, F) ==
  LET P   == ParseRequest(HeaderBlock(stream))
      req == [method |-> P.method, path |-> P.path, headers |-> P.headers]
      m   == Match(routes, statics, F, P.method, P.path)
      rendered(h, res) ==
        {[request_ |-> req, handled |-> h, response_ |-> res,
          wire |-> to_string(res, order)] :
         order \in IterationOrders(DOMAIN res.headers)}
  IN  IF P.malformed THEN rendered(NotHandled, BadRequest(NewResponse))
      ELSE IF m.kind = "throw"
        THEN {[request_ |-> req, handled |-> NotHandled,
               response_ |-> NewResponse, wire |-> ""]}
      ELSE UNION {rendered(h, AfterHandler(h)) :
                  h \in InvokeHandler(m, req, NewResponse, F)}

\* C36: what a connection does with a byte sequence does not depend on
\* the reads that deliver it: as long as the bytes received lack "\r\n\r\n"
\* nothing is done, and from the read that completes it on, wherever the
\* reads cut the sequence and however many bytes beyond the terminator
\* they carry, the method, path and headers parsed, the handler chosen and
\* the bytes written are those of the byte sequence.
C36_SegmentationIndependent ==
  \A c \in ConnIds :
    LET C      == conn[c]
        stream == C.request_buffer_ \o C.pending
    IN  C.state # "none" =>
          /\ stream \in ClientStreams
          /\ HeadersPending(C) =>
               (Untouched(C) /\ C.state \in {"reading", "abandoned"})
          /\ ~HeadersPending(C) =>
               /\ C.state \in {"writing", "closed", "abandoned", "escaped"}
               /\ [request_ |-> C.request_, handled |-> C.handled,
                   response_ |-> C.response_, wire |-> C.wire]
                    \in Outcomes(stream, router["A"].routes_,
                                 router["A"].static_paths_, fs)

\* C36 witness: the read that completed the header block also delivered
\* some, not all, of the bytes the client sent after it, and the request
\* was answered by its route handler.
C36_Witness ==
  LET C == conn["c1"]
  IN  /\ C.state = "writing"
      /\ ~HeadersPending(C)
      /\ Len(C.request_buffer_) > Len(HeaderBlock(C.request_buffer_))
      /\ C.pending # ""
      /\ C.handled.kind = "route"
      /\ C.request_.path = "/status"

-----------------------------------------------------------------------------
(* Properties of Response::to_string, under SpecRender                     *)

\* C37: a rendered response has one Content-Length header line, no more,
\* and its value is the number of bytes of the body, whatever the handler
\* did to the Response, also when it put a "Content-Length" entry into
\* the headers itself.
C37_OneContentLength ==
  call.fn = "to_string" =>
    LET lines   == WireLines(call.result)
        lengths == {i \in DOMAIN lines :
                      StartsWith(lines[i], "Content-Length: ")}
    IN  /\ Cardinality(lengths) = 1
        /\ \A i \in lengths :
             lines[i] = "Content-Length: " \o ToString(Len(call.arg.body))

-----------------------------------------------------------------------------
(* Progress of a connection, under SpecLive                                *)

\* C39: when completions are delivered and no read or write fails, a
\* connection whose client sends a complete header block is answered
\* with one response and closed in the end, whatever the request is: until
\* it is closed with one response written, the running reactor holds an
\* operation of the connection that completes, a read with bytes to
\* deliver or the write.
C39_AnsweredAndClosed ==
  \A c \in ConnIds :
    (/\ conn[c].state # "none"
     /\ Find(conn[c].request_buffer_ \o conn[c].pending, "\r\n\r\n") # -1) =>
      \/ /\ conn[c].state = "closed"
         /\ Count(conn[c].log, "write") = 1
      \/ /\ server = "running"
         /\ \/ /\ conn[c].state = "reading"
               /\ conn[c].reads = 1
               /\ conn[c].pending # ""
            \/ /\ conn[c].state = "writing"
               /\ Count(conn[c].log, "write") = 1

=============================================================================
